---- MODULE Spec2Model ----
(***************************************************************************)
(* TempSense GUI: the device communication and state-reconciliation core.  *)
(*                                                                         *)
(*   src/src/esp_comm.rs  esp_worker_thread: one serial worker per device  *)
(*   src/src/app.rs       TemplateApp: update() (OSC drain, reconciliation *)
(*                        of ESP L and ESP R, repaint decision, page       *)
(*                        rendering with the user's actions), on_exit      *)
(*   src/src/osc.rs       handle_packet: the upstream setpoint source      *)
(*                                                                         *)
(* Threads: the control (GUI) thread, one worker thread per connected      *)
(* device, the OSC listener thread.  They share nothing but mpsc channels. *)
(* Every channel operation is one atomic step; a handler of the control    *)
(* thread is split only where another thread can be observed: at a         *)
(* try_recv of a status channel, at a blocking join, and between the OSC   *)
(* drain loop and the repaint decision.                                    *)
(***************************************************************************)
EXTENDS Integers, Sequences, FiniteSets, TLC

\* ------------------------------------------------------------------ bounds

\* Inputs of one run: the user's clicks, the packets the OSC listener
\* handles and the lines the devices send, all together.
MaxInputs == 3

\* ------------------------------------------------------- program constants

\* pelt_temp_1_old / pelt_temp_2_old at construction.
InitialOld == -127
\* pelt_temp_1 / pelt_temp_2 at construction.
InitialTemp == 0
\* add_esp_log_message keeps at most this many entries.
LogCap == 200

\* The two devices: 1 is ESP L (Peltier 1, OSC id 0), 2 is ESP R (Peltier 2,
\* OSC id 1).
Devices == {1, 2}

esp_identifier(d) == IF d = 1 THEN "ESP L" ELSE "ESP R"

\* The ids handle_packet produces are 0..7; update_pelt_temp has one arm for
\* 0, one for 1 and a fallback arm for every other id, for which 2 stands.
OscIds == {0, 1, 2}

\* Target temperatures of the model (i8 in the code).
Temps == {0, 5}

\* Lines a device sends (telemetry "key:value,..." text), by what
\* parse_esp_message_and_update_state finds in them.
\* A line is the sequence of its comma-separated parts; a part is <<key, value>>
\* (split at its first ':') or <<text>> (no ':' in it).
SerialLines == { << <<"Skin_Temp_Smoothed", "12.12">> >>,
                 << <<"Skin_Temp_Smoothed", "abc">> >> }

\* Texts that parse::<f32>() accepts, among those of the model.
NumericTexts == {"12.12", "18.73"}

\* ---------------------------------------------------------------- commands

Connect == [type |-> "Connect"]
Disconnect == [type |-> "Disconnect"]
SendCommand(text) == [type |-> "SendCommand", text |-> text]
StopThread == [type |-> "StopThread"]

\* ---------------------------------------------------------------- statuses

Connected == [kind |-> "Connected", text |-> ""]
Disconnected(reason) == [kind |-> "Disconnected", text |-> reason]
Error(msg) == [kind |-> "Error", text |-> msg]
Message(text) == [kind |-> "Message", text |-> text]

VARIABLES
    \* ---- TemplateApp (control thread)
    pelt_temp,              \* pelt_temp_1, pelt_temp_2: target temperature
    pelt_temp_old,          \* pelt_temp_1_old, pelt_temp_2_old
    manual_pelt,            \* manual_pelt_1, manual_pelt_2: "Override OSC"
    esp_command_sender,     \* esp_command_sender_N is Some
    esp_status_receiver,    \* esp_status_receiver_N is Some
    esp_thread_handle,      \* esp_thread_handle_N is Some
    esp_connected,          \* esp_connected_N
    skin_temp,              \* skin_temp_N: "None" or the parsed value
    log_appended,           \* what add_esp_log_message pushed in the latest
                            \* step of the control thread, oldest first
    \* ---- control thread position
    gui_pc,                 \* where the control thread is
    gui_dev,                \* the device whose session it is working on
    clear_receiver,         \* update(): clear_receiverN_permanently
    \* ---- channels
    osc_q,                  \* setpoint channel, listener -> control thread
    cmd_q,                  \* command channel of each device's session
    status_q,               \* status channel of each device's session
    \* ---- esp_worker_thread of each device
    w_pc,                   \* "none" (not spawned), "run", "exited"
    serial_port,            \* serial_port is Some
    \* ---- environment
    inputs,                 \* clicks, OSC packets and serial lines so far
    \* ---- observers (not program state)
    w_exit,                 \* why a worker's loop ended ("": it has not)
    last_sent               \* <<v>>: the last "setTemp v" sent to the device

app_vars == <<pelt_temp, pelt_temp_old, manual_pelt, esp_command_sender,
              esp_status_receiver, esp_thread_handle, esp_connected, skin_temp,
              log_appended>>
pos_vars == <<gui_pc, gui_dev, clear_receiver>>
chan_vars == <<osc_q, cmd_q, status_q>>
worker_vars == <<w_pc, serial_port, w_exit>>
env_vars == <<inputs>>
obs_vars == <<last_sent>>
vars == <<app_vars, pos_vars, chan_vars, worker_vars, env_vars, obs_vars>>

\* ------------------------------------------------------------------ helpers

\* A variant of the cap that drops the entry just pushed.
add_esp_log_message_drop_newest(log, id, message) ==
    LET pushed == Append(log, <<id, message>>)
    IN  IF Len(pushed) > LogCap THEN SubSeq(pushed, 1, LogCap) ELSE pushed

\* Vec::push at the end, then the cap of add_esp_log_message: when the log
\* holds more than 200 entries its first one is removed.
add_esp_log_message(log, id, message) ==
    LET pushed == Append(log, <<id, message>>)
    IN  IF Len(pushed) > LogCap THEN Tail(pushed) ELSE pushed

\* The status receiver of d's channel exists.  During a pass of update() it
\* is held by receiverN_temp_opt, which is put back into the session at the
\* end of the pass unless clear_receiverN_permanently was set; the model
\* keeps esp_status_receiver true for both.
ReceiverAlive(d) == esp_status_receiver[d]

\* status_tx.send(s).ok() for each s of ss: appended, or lost when the
\* receiver was dropped (the error is ignored).
StatusSend(q, d, ss) == IF ReceiverAlive(d) THEN q \o ss ELSE q

\* One iteration of the worker's loop that took a command or read the port:
\* the command (if any) leaves the channel, ss is sent, the port ends `port`,
\* and the loop ends for `exit` # "": the thread returns and its command
\* receiver is dropped (cmd_q keeps what it held, which nothing takes any
\* more; a send on the channel fails from then on).
WorkerEffect(d, took, ss, port, exit) ==
    /\ cmd_q' = [cmd_q EXCEPT ![d] = IF took THEN Tail(@) ELSE @]
    /\ status_q' = [status_q EXCEPT ![d] = StatusSend(@, d, ss)]
    /\ serial_port' = [serial_port EXCEPT ![d] = port]
    /\ w_pc' = [w_pc EXCEPT ![d] = IF exit = "" THEN "run" ELSE "exited"]
    /\ w_exit' = [w_exit EXCEPT ![d] = exit]
    /\ UNCHANGED <<app_vars, pos_vars, osc_q, obs_vars>>

\* command_rx.try_recv() is Ok(cmd)
HasCommand(d) == w_pc[d] = "run" /\ cmd_q[d] # <<>>

\* ---------------------------------------------------- esp_worker_thread

\* EspCommand::Connect: refused with an Error while a port is open; else the
\* port is opened (the open succeeds or fails: the environment decides).
OpenResults == {"ok", "failed"}

\* A variant in which a failed open leaves the worker holding a port.
ConnectOutcomeFailKeepsPort(d, open) ==
    IF serial_port[d]
    THEN [ss |-> <<Error("Already connected or connection attempt in progress.")>>,
          port |-> TRUE]
    ELSE IF open = "ok"
         THEN [ss |-> <<Connected>>, port |-> TRUE]
         ELSE [ss |-> <<Error("Failed to connect")>>, port |-> TRUE]

\* A variant that opens a port whether or not one is open.
ConnectOutcomeReopen(d, open) ==
    IF open = "ok"
    THEN [ss |-> <<Connected>>, port |-> TRUE]
    ELSE [ss |-> <<Error("Failed to connect")>>, port |-> FALSE]

ConnectOutcome(d, open) ==
    IF serial_port[d]
    THEN [ss |-> <<Error("Already connected or connection attempt in progress.")>>,
          port |-> TRUE]
    ELSE IF open = "ok"
         THEN [ss |-> <<Connected>>, port |-> TRUE]
         ELSE [ss |-> <<Error("Failed to connect")>>, port |-> FALSE]

WConnect(d) ==
    /\ UNCHANGED inputs
    /\ HasCommand(d)
    /\ Head(cmd_q[d]).type = "Connect"
    /\ \E open \in OpenResults :
          LET o == ConnectOutcome(d, open)
          IN  WorkerEffect(d, TRUE, o.ss, o.port, "")

\* EspCommand::SendCommand: written and flushed; a failed write or flush
\* sends Error then Disconnected, closes the port and breaks out of the loop.
\* Without a port: Error.
WriteResults == {"ok", "write failed", "flush failed"}

\* A variant in which a SendCommand without a port is dropped unreported.
SendOutcomeIdleSilent(d, io) ==
    IF ~serial_port[d]
    THEN [ss |-> <<>>, port |-> FALSE, exit |-> ""]
    ELSE IF io = "ok"
         THEN [ss |-> <<>>, port |-> TRUE, exit |-> ""]
         ELSE IF io = "write failed"
              THEN [ss |-> <<Error("Failed to send command"),
                             Disconnected("Failed to send command")>>,
                    port |-> FALSE, exit |-> "write"]
              ELSE [ss |-> <<Error("Failed to flush serial port"),
                             Disconnected("Failed to flush serial port")>>,
                    port |-> FALSE, exit |-> "flush"]

\* A variant that reports a failed write or flush and goes on with the loop.
SendOutcomeNoBreak(d, io) ==
    IF ~serial_port[d]
    THEN [ss |-> <<Error("Not connected to ESP. Cannot send command.")>>,
          port |-> FALSE, exit |-> ""]
    ELSE IF io = "ok"
         THEN [ss |-> <<>>, port |-> TRUE, exit |-> ""]
         ELSE IF io = "write failed"
              THEN [ss |-> <<Error("Failed to send command"),
                             Disconnected("Failed to send command")>>,
                    port |-> FALSE, exit |-> ""]
              ELSE [ss |-> <<Error("Failed to flush serial port"),
                             Disconnected("Failed to flush serial port")>>,
                    port |-> FALSE, exit |-> ""]

SendOutcome(d, io) ==
    IF ~serial_port[d]
    THEN [ss |-> <<Error("Not connected to ESP. Cannot send command.")>>,
          port |-> FALSE, exit |-> ""]
    ELSE IF io = "ok"
         THEN [ss |-> <<>>, port |-> TRUE, exit |-> ""]
         ELSE IF io = "write failed"
              THEN [ss |-> <<Error("Failed to send command"),
                             Disconnected("Failed to send command")>>,
                    port |-> FALSE, exit |-> "write"]
              ELSE [ss |-> <<Error("Failed to flush serial port"),
                             Disconnected("Failed to flush serial port")>>,
                    port |-> FALSE, exit |-> "flush"]

WSendCommand(d) ==
    /\ UNCHANGED inputs
    /\ HasCommand(d)
    /\ Head(cmd_q[d]).type = "SendCommand"
    /\ \E io \in (IF serial_port[d] THEN WriteResults ELSE {"ok"}) :
          LET o == SendOutcome(d, io)
          IN  WorkerEffect(d, TRUE, o.ss, o.port, o.exit)

\* EspCommand::Disconnect: the port is taken; Disconnected if there was one,
\* else an informational Message.  The loop goes on.
DisconnectOutcome(d) ==
    IF serial_port[d]
    THEN [ss |-> <<Disconnected("Disconnected by user.")>>, exit |-> ""]
    ELSE [ss |-> <<Message(<< <<"Already disconnected.">> >>)>>, exit |-> ""]

WDisconnect(d) ==
    /\ UNCHANGED inputs
    /\ HasCommand(d)
    /\ Head(cmd_q[d]).type = "Disconnect"
    /\ LET o == DisconnectOutcome(d)
       IN  WorkerEffect(d, TRUE, o.ss, FALSE, o.exit)

\* A variant of StopThread that closes the port and goes on with the loop.
WStopThreadNoBreak(d) ==
    /\ UNCHANGED inputs
    /\ HasCommand(d)
    /\ Head(cmd_q[d]).type = "StopThread"
    /\ WorkerEffect(d, TRUE, <<Disconnected("ESP worker thread stopped.")>>,
                    FALSE, "")

\* EspCommand::StopThread: the port is taken, Disconnected sent, break.
WStopThread(d) ==
    /\ UNCHANGED inputs
    /\ HasCommand(d)
    /\ Head(cmd_q[d]).type = "StopThread"
    /\ WorkerEffect(d, TRUE, <<Disconnected("ESP worker thread stopped.")>>,
                    FALSE, "stop")

\* Err(TryRecvError::Empty) with a port open: one read.  Bytes give a Message;
\* 0 bytes and a timeout change nothing (no step); any other error sends
\* Error then Disconnected, closes the port and breaks.
ReadResults ==
    [result : {"bytes"}, line : SerialLines]
    \cup {[result |-> "error", line |-> <<>>]}

\* A variant that reports a read error and ends with the port still held.
ReadOutcomeKeepsPort(d, io) ==
    IF io.result = "error"
    THEN [ss |-> <<Error("Serial read error"), Disconnected("Serial read error")>>,
          port |-> TRUE, exit |-> "read"]
    ELSE [ss |-> <<Message(io.line)>>, port |-> TRUE, exit |-> ""]

\* A variant that reports a read error and goes on with the loop.
ReadOutcomeNoBreak(d, io) ==
    IF io.result = "error"
    THEN [ss |-> <<Error("Serial read error"), Disconnected("Serial read error")>>,
          port |-> FALSE, exit |-> ""]
    ELSE [ss |-> <<Message(io.line)>>, port |-> TRUE, exit |-> ""]

ReadOutcome(d, io) ==
    IF io.result = "error"
    THEN [ss |-> <<Error("Serial read error"), Disconnected("Serial read error")>>,
          port |-> FALSE, exit |-> "read"]
    ELSE [ss |-> <<Message(io.line)>>, port |-> TRUE, exit |-> ""]

\* A variant that reads the port whether or not a command is waiting.
WReadAnytime(d) ==
    /\ w_pc[d] = "run"
    /\ esp_command_sender[d]
    /\ serial_port[d]
    /\ \E io \in ReadResults :
          /\ inputs' = IF io.result = "bytes" THEN inputs + 1 ELSE inputs
          /\ inputs' <= MaxInputs
          /\ LET o == ReadOutcome(d, io)
             IN  WorkerEffect(d, FALSE, o.ss, o.port, o.exit)

WRead(d) ==
    /\ w_pc[d] = "run"
    /\ cmd_q[d] = <<>>
    /\ esp_command_sender[d]
    /\ serial_port[d]
    /\ \E io \in ReadResults :
          /\ inputs' = IF io.result = "bytes" THEN inputs + 1 ELSE inputs
          /\ inputs' <= MaxInputs
          /\ LET o == ReadOutcome(d, io)
             IN  WorkerEffect(d, FALSE, o.ss, o.port, o.exit)

\* A variant of the end on a disconnected channel that reports it.
WChannelDisconnectedNotifies(d) ==
    /\ UNCHANGED inputs
    /\ w_pc[d] = "run"
    /\ cmd_q[d] = <<>>
    /\ ~esp_command_sender[d]
    /\ WorkerEffect(d, FALSE, <<Disconnected("Command channel closed.")>>,
                    FALSE, "channel")

\* Err(TryRecvError::Disconnected): every sender is gone and the channel is
\* empty.  The port is taken and the loop ends; nothing is sent.
WChannelDisconnected(d) ==
    /\ UNCHANGED inputs
    /\ w_pc[d] = "run"
    /\ cmd_q[d] = <<>>
    /\ ~esp_command_sender[d]
    /\ WorkerEffect(d, FALSE, <<>>, FALSE, "channel")

\* ------------------------------------------------------------ osc listener

\* handle_packet: one (id, int_value) pair sent on the setpoint channel.
OscSend ==
    /\ inputs < MaxInputs
    /\ \E id \in OscIds, value \in Temps :
          osc_q' = Append(osc_q, <<id, value>>)
    /\ inputs' = inputs + 1
    /\ UNCHANGED <<app_vars, pos_vars, cmd_q, status_q, worker_vars, obs_vars>>

\* ------------------------------------------------- TemplateApp: ingestion

\* A variant that drops an event with an unknown id.
update_pelt_temp_drop(st, id, temp) ==
    IF id = 0
    THEN IF manual_pelt[1] # TRUE THEN [st EXCEPT !.temp[1] = temp] ELSE st
    ELSE IF id = 1
         THEN IF manual_pelt[2] # TRUE THEN [st EXCEPT !.temp[2] = temp] ELSE st
         ELSE st

\* A variant that applies an event with a known id whatever the override says.
update_pelt_temp_ungated(st, id, temp) ==
    IF id = 0
    THEN [st EXCEPT !.temp[1] = temp]
    ELSE IF id = 1
         THEN [st EXCEPT !.temp[2] = temp]
         ELSE [temp |-> [st.temp EXCEPT ![1] = temp],
               log |-> add_esp_log_message(st.log, "APP", "Invalid peltier _id")]

\* update_pelt_temp on st = [temp: the two targets, log: the log].
update_pelt_temp(st, id, temp) ==
    IF id = 0
    THEN IF manual_pelt[1] # TRUE THEN [st EXCEPT !.temp[1] = temp] ELSE st
    ELSE IF id = 1
         THEN IF manual_pelt[2] # TRUE THEN [st EXCEPT !.temp[2] = temp] ELSE st
         ELSE [temp |-> [st.temp EXCEPT ![1] = temp],
               log |-> add_esp_log_message(st.log, "APP", "Invalid peltier _id")]

\* while let Ok(m) = self.osc_receiver.try_recv() { update_pelt_temp(m.0, m.1) }
RECURSIVE drain_osc(_, _)
drain_osc(st, q) ==
    IF q = <<>> THEN st
    ELSE drain_osc(update_pelt_temp(st, q[1][1], q[1][2]), Tail(q))

\* update(), first part: the OSC drain loop.
\* A variant of the drain loop that leaves the events it ignored in the queue.
OscDrainKeepIgnored ==
    /\ gui_pc = "frame"
    /\ LET st == drain_osc([temp |-> pelt_temp, log |-> <<>>], osc_q)
           ignored(e) == e[1] \in {0, 1} /\ manual_pelt[e[1] + 1]
       IN  /\ pelt_temp' = st.temp
           /\ log_appended' = st.log
           /\ osc_q' = SelectSeq(osc_q, ignored)
    /\ gui_pc' = "status"
    /\ gui_dev' = 1
    /\ UNCHANGED <<pelt_temp_old, manual_pelt, esp_command_sender,
                   esp_status_receiver, esp_thread_handle, esp_connected,
                   skin_temp, clear_receiver, cmd_q, status_q, worker_vars,
                   env_vars, obs_vars>>

OscDrain ==
    /\ gui_pc = "frame"
    /\ LET st == drain_osc([temp |-> pelt_temp, log |-> <<>>], osc_q)
       IN  /\ pelt_temp' = st.temp
           /\ log_appended' = st.log
    /\ osc_q' = <<>>
    /\ gui_pc' = "status"
    /\ gui_dev' = 1
    /\ UNCHANGED <<pelt_temp_old, manual_pelt, esp_command_sender,
                   esp_status_receiver, esp_thread_handle, esp_connected,
                   skin_temp, clear_receiver, cmd_q, status_q, worker_vars,
                   env_vars, obs_vars>>

\* ------------------------------------------- TemplateApp: telemetry parser

\* parse_esp_message_and_update_state on st = [skin: skin_temp_N of the
\* device, log]: each part with a ':' whose key is Skin_Temp_Smoothed sets the
\* value, or logs a parse failure.
RECURSIVE parse_esp_message_and_update_state(_, _, _)
parse_esp_message_and_update_state(st, esp_id_str, msg) ==
    IF msg = <<>> THEN st
    ELSE LET part == msg[1]
             next ==
                 IF Len(part) = 2 /\ part[1] = "Skin_Temp_Smoothed"
                 THEN IF part[2] \in NumericTexts
                      THEN [st EXCEPT !.skin = part[2]]
                      ELSE [st EXCEPT !.log = add_esp_log_message(
                               @, esp_id_str, "Failed to parse Skin_Temp_Smoothed value")]
                 ELSE st
         IN  parse_esp_message_and_update_state(next, esp_id_str, Tail(msg))

\* ---------------------------------------- TemplateApp: reconciliation pass

\* The match on one status of device d, on the session st = [connected,
\* handle, sender, clear, skin, log, join].  Disconnected takes the handle and
\* joins it (join: the control thread waits for the worker thread to end; the
\* sender is cleared and clear_receiverN_permanently set once it has
\* returned, which is at once when there was no handle).  ESP L logs a
\* Message before parsing it, ESP R after.
\* A variant in which an Error status ends the session as a Disconnected does.
on_status_error_ends_session(st, d, status) ==
    LET id == esp_identifier(d)
    IN  CASE status.kind = "Connected" ->
               [st EXCEPT !.connected = TRUE,
                          !.log = add_esp_log_message(@, id, "Connected.")]
          [] status.kind = "Disconnected" ->
               [st EXCEPT !.connected = FALSE,
                          !.log = add_esp_log_message(@, id, status.text),
                          !.handle = FALSE,
                          !.join = st.handle,
                          !.sender = IF st.handle THEN @ ELSE FALSE,
                          !.clear = IF st.handle THEN @ ELSE TRUE]
          [] status.kind = "Error" ->
               [st EXCEPT !.log = add_esp_log_message(@, id, "Error"),
                          !.handle = FALSE,
                          !.join = st.handle,
                          !.sender = IF st.handle THEN @ ELSE FALSE,
                          !.clear = IF st.handle THEN @ ELSE TRUE]
          [] status.kind = "Message" ->
               [st EXCEPT !.log = add_esp_log_message(@, id, "MSG")]

\* A variant in which an Error status also clears the connectivity flag.
on_status_error_clears(st, d, status) ==
    LET id == esp_identifier(d)
    IN  CASE status.kind = "Connected" ->
               [st EXCEPT !.connected = TRUE,
                          !.log = add_esp_log_message(@, id, "Connected.")]
          [] status.kind = "Disconnected" ->
               [st EXCEPT !.connected = FALSE,
                          !.log = add_esp_log_message(@, id, status.text),
                          !.handle = FALSE,
                          !.join = st.handle,
                          !.sender = IF st.handle THEN @ ELSE FALSE,
                          !.clear = IF st.handle THEN @ ELSE TRUE]
          [] status.kind = "Error" ->
               [st EXCEPT !.connected = FALSE,
                          !.log = add_esp_log_message(@, id, "Error")]
          [] status.kind = "Message" ->
               [st EXCEPT !.log = add_esp_log_message(@, id, "MSG")]

\* A variant in which a Disconnected status leaves the connectivity flag.
on_status_disconnected_keeps_flag(st, d, status) ==
    LET id == esp_identifier(d)
    IN  CASE status.kind = "Connected" ->
               [st EXCEPT !.connected = TRUE,
                          !.log = add_esp_log_message(@, id, "Connected.")]
          [] status.kind = "Disconnected" ->
               [st EXCEPT !.log = add_esp_log_message(@, id, status.text),
                          !.handle = FALSE,
                          !.join = st.handle,
                          !.sender = IF st.handle THEN @ ELSE FALSE,
                          !.clear = IF st.handle THEN @ ELSE TRUE]
          [] status.kind = "Error" ->
               [st EXCEPT !.log = add_esp_log_message(@, id, "Error")]
          [] status.kind = "Message" ->
               IF d = 1
               THEN parse_esp_message_and_update_state(
                        [st EXCEPT !.log = add_esp_log_message(@, id, "MSG")],
                        id, status.text)
               ELSE LET parsed == parse_esp_message_and_update_state(
                                      st, id, status.text)
                    IN  [parsed EXCEPT !.log = add_esp_log_message(@, id, "MSG")]

\* A variant in which a Connected status sets the flag and logs nothing.
on_status_connected_silent(st, d, status) ==
    LET id == esp_identifier(d)
    IN  CASE status.kind = "Connected" ->
               [st EXCEPT !.connected = TRUE]
          [] status.kind = "Disconnected" ->
               [st EXCEPT !.connected = FALSE,
                          !.log = add_esp_log_message(@, id, status.text),
                          !.handle = FALSE,
                          !.join = st.handle,
                          !.sender = IF st.handle THEN @ ELSE FALSE,
                          !.clear = IF st.handle THEN @ ELSE TRUE]
          [] status.kind = "Error" ->
               [st EXCEPT !.log = add_esp_log_message(@, id, "Error")]
          [] status.kind = "Message" ->
               IF d = 1
               THEN parse_esp_message_and_update_state(
                        [st EXCEPT !.log = add_esp_log_message(@, id, "MSG")],
                        id, status.text)
               ELSE LET parsed == parse_esp_message_and_update_state(
                                      st, id, status.text)
                    IN  [parsed EXCEPT !.log = add_esp_log_message(@, id, "MSG")]

\* A variant in which a line with a value that fails to parse clears the
\* device's telemetry value.
on_status_failure_clears_skin(st, d, status) ==
    LET id == esp_identifier(d)
    IN  CASE status.kind = "Connected" ->
               [st EXCEPT !.connected = TRUE,
                          !.log = add_esp_log_message(@, id, "Connected.")]
          [] status.kind = "Disconnected" ->
               [st EXCEPT !.connected = FALSE,
                          !.log = add_esp_log_message(@, id, status.text),
                          !.handle = FALSE,
                          !.join = st.handle,
                          !.sender = IF st.handle THEN @ ELSE FALSE,
                          !.clear = IF st.handle THEN @ ELSE TRUE]
          [] status.kind = "Error" ->
               [st EXCEPT !.log = add_esp_log_message(@, id, "Error")]
          [] status.kind = "Message" ->
               LET parsed == parse_esp_message_and_update_state(
                                 st, id, status.text)
                   done == IF parsed.log # st.log
                           THEN [parsed EXCEPT !.skin = "None"] ELSE parsed
               IN  [done EXCEPT !.log = add_esp_log_message(@, id, "MSG")]

on_status(st, d, status) ==
    LET id == esp_identifier(d)
    IN  CASE status.kind = "Connected" ->
               [st EXCEPT !.connected = TRUE,
                          !.log = add_esp_log_message(@, id, "Connected.")]
          [] status.kind = "Disconnected" ->
               [st EXCEPT !.connected = FALSE,
                          !.log = add_esp_log_message(@, id, status.text),
                          !.handle = FALSE,
                          !.join = st.handle,
                          !.sender = IF st.handle THEN @ ELSE FALSE,
                          !.clear = IF st.handle THEN @ ELSE TRUE]
          [] status.kind = "Error" ->
               [st EXCEPT !.log = add_esp_log_message(@, id, "Error")]
          [] status.kind = "Message" ->
               IF d = 1
               THEN parse_esp_message_and_update_state(
                        [st EXCEPT !.log = add_esp_log_message(@, id, "MSG")],
                        id, status.text)
               ELSE LET parsed == parse_esp_message_and_update_state(
                                      st, id, status.text)
                    IN  [parsed EXCEPT !.log = add_esp_log_message(@, id, "MSG")]

\* One turn of `while let Ok(status) = rx.try_recv()`.
ProcessStatus(d) ==
    /\ gui_pc = "status"
    /\ gui_dev = d
    /\ esp_status_receiver[d]
    /\ status_q[d] # <<>>
    /\ LET st == on_status([connected |-> esp_connected[d],
                            handle |-> esp_thread_handle[d],
                            sender |-> esp_command_sender[d],
                            clear |-> clear_receiver[d],
                            skin |-> skin_temp[d],
                            log |-> <<>>,
                            join |-> FALSE], d, Head(status_q[d]))
       IN  /\ esp_connected' = [esp_connected EXCEPT ![d] = st.connected]
           /\ esp_thread_handle' = [esp_thread_handle EXCEPT ![d] = st.handle]
           /\ esp_command_sender' = [esp_command_sender EXCEPT ![d] = st.sender]
           /\ clear_receiver' = [clear_receiver EXCEPT ![d] = st.clear]
           /\ skin_temp' = [skin_temp EXCEPT ![d] = st.skin]
           /\ log_appended' = st.log
           /\ gui_pc' = IF st.join THEN "join" ELSE "status"
    /\ status_q' = [status_q EXCEPT ![d] = Tail(@)]
    /\ UNCHANGED <<pelt_temp, pelt_temp_old, manual_pelt, esp_status_receiver,
                   gui_dev, osc_q, cmd_q, worker_vars, env_vars, obs_vars>>

\* A variant of the return from the join that leaves the command sender and
\* does not mark the receiver for clearing.
JoinReturnKeepSender(d) ==
    /\ gui_pc = "join"
    /\ gui_dev = d
    /\ w_pc[d] = "exited"
    /\ clear_receiver' = [clear_receiver EXCEPT ![d] = FALSE]
    /\ gui_pc' = "status"
    /\ UNCHANGED <<pelt_temp, pelt_temp_old, manual_pelt, esp_status_receiver,
                   esp_thread_handle, esp_command_sender, esp_connected,
                   skin_temp, log_appended, gui_dev, chan_vars, worker_vars,
                   env_vars, obs_vars>>

\* handle.join() returns: the worker thread has ended.  Then the command
\* sender is cleared and the receiver marked for clearing; the drain goes on.
JoinReturn(d) ==
    /\ gui_pc = "join"
    /\ gui_dev = d
    /\ w_pc[d] = "exited"
    /\ esp_command_sender' = [esp_command_sender EXCEPT ![d] = FALSE]
    /\ clear_receiver' = [clear_receiver EXCEPT ![d] = TRUE]
    /\ gui_pc' = "status"
    /\ UNCHANGED <<pelt_temp, pelt_temp_old, manual_pelt, esp_status_receiver,
                   esp_thread_handle, esp_connected, skin_temp, log_appended,
                   gui_dev, chan_vars, worker_vars, env_vars, obs_vars>>

\* A variant of the end of the pass that puts the receiver back after a
\* Disconnected too.
DrainEndKeepsReceiver(d) ==
    /\ gui_pc = "status"
    /\ gui_dev = d
    /\ ~esp_status_receiver[d] \/ status_q[d] = <<>>
    /\ IF clear_receiver[d]
       THEN /\ esp_thread_handle[d] => w_pc[d] = "exited"
            /\ esp_thread_handle' = [esp_thread_handle EXCEPT ![d] = FALSE]
            /\ esp_command_sender' = [esp_command_sender EXCEPT ![d] = FALSE]
            /\ log_appended' = <<>>
            /\ UNCHANGED <<esp_status_receiver, status_q>>
       ELSE /\ log_appended' = <<>>
            /\ UNCHANGED <<esp_status_receiver, esp_thread_handle,
                           esp_command_sender, status_q>>
    /\ clear_receiver' = [clear_receiver EXCEPT ![d] = FALSE]
    /\ IF d = 1
       THEN /\ gui_pc' = "status"
            /\ gui_dev' = 2
       ELSE /\ gui_pc' = "repaint"
            /\ gui_dev' = 1
    /\ UNCHANGED <<pelt_temp, pelt_temp_old, manual_pelt, esp_connected, skin_temp,
                   osc_q, cmd_q, worker_vars, env_vars, obs_vars>>

\* try_recv() finds nothing (or there is no receiver): the end of d's pass.
\* Without a Disconnected in the pass the receiver is put back.  After one the
\* receiver is dropped, a handle still there is joined and a sender left
\* without a handle is cleared.  Then update() goes on: to ESP R's pass after
\* ESP L's, to the repaint decision after ESP R's.
DrainEnd(d) ==
    /\ gui_pc = "status"
    /\ gui_dev = d
    /\ ~esp_status_receiver[d] \/ status_q[d] = <<>>
    /\ IF clear_receiver[d]
       THEN /\ esp_thread_handle[d] => w_pc[d] = "exited"
            /\ esp_status_receiver' = [esp_status_receiver EXCEPT ![d] = FALSE]
            /\ esp_thread_handle' = [esp_thread_handle EXCEPT ![d] = FALSE]
            /\ esp_command_sender' = [esp_command_sender EXCEPT ![d] = FALSE]
            /\ log_appended' =
                  LET joined == IF esp_thread_handle[d]
                                THEN add_esp_log_message(<<>>, esp_identifier(d),
                                        "Ensuring thread is joined after disconnect (update).")
                                ELSE <<>>
                  IN  IF esp_command_sender[d]
                      THEN add_esp_log_message(joined, esp_identifier(d),
                              "Cleared command sender as thread handle is gone.")
                      ELSE joined
            /\ status_q' = [status_q EXCEPT ![d] = <<>>]
       ELSE /\ log_appended' = <<>>
            /\ UNCHANGED <<esp_status_receiver, esp_thread_handle,
                           esp_command_sender, status_q>>
    /\ clear_receiver' = [clear_receiver EXCEPT ![d] = FALSE]
    /\ IF d = 1
       THEN /\ gui_pc' = "status"
            /\ gui_dev' = 2
       ELSE /\ gui_pc' = "repaint"
            /\ gui_dev' = 1
    /\ UNCHANGED <<pelt_temp, pelt_temp_old, manual_pelt, esp_connected, skin_temp,
                   osc_q, cmd_q, worker_vars, env_vars, obs_vars>>

\* ------------------------------------------------ update(): repaint decision

\* `if self.osc_receiver.try_recv().is_ok() || processed_any_message_this_frame`:
\* the try_recv takes an event off the setpoint channel when one is there, and
\* only is_ok() of it is used.
RepaintDecision ==
    /\ gui_pc = "repaint"
    /\ osc_q' = IF osc_q # <<>> THEN Tail(osc_q) ELSE osc_q
    /\ log_appended' = <<>>
    /\ gui_pc' = "render"
    /\ UNCHANGED <<pelt_temp, pelt_temp_old, manual_pelt, esp_command_sender,
                   esp_status_receiver, esp_thread_handle, esp_connected,
                   skin_temp, gui_dev, clear_receiver, cmd_q, status_q,
                   worker_vars, env_vars, obs_vars>>

\* ------------------------------------------------------- sending commands

\* sender.send(cmd) on d's command channel, on r = [cmdq, log, old, sent]:
\* Ok while the worker holds the receiver, Err once its thread has ended.  The
\* entry logged is `sent` or `failed`.
CommandSend(r, d, cmd, sent, failed) ==
    IF w_pc[d] = "run"
    THEN [r EXCEPT !.cmdq[d] = Append(@, cmd),
                   !.log = add_esp_log_message(@, esp_identifier(d), sent),
                   !.sent[d] = IF cmd.type = "SendCommand" /\ cmd.text[1] = "setTemp"
                               THEN <<cmd.text[2]>> ELSE @]
    ELSE [r EXCEPT !.log = add_esp_log_message(@, esp_identifier(d), failed)]

\* render_home_page, the forwarding of one device's target: a changed target
\* is sent as "setTemp <target>" while the device is connected, or reported
\* while it is not; then the target is remembered in pelt_temp_N_old.
\* A variant that remembers a target only when it was sent, so that a target
\* that changed while the device was not connected is sent once it is.
ForwardTempRetry(r, d) ==
    LET changed == pelt_temp[d] # r.old[d]
    IN  IF esp_connected[d] /\ changed
        THEN IF esp_command_sender[d]
             THEN [CommandSend(r, d, SendCommand(<<"setTemp", pelt_temp[d]>>),
                               "Sent command: setTemp", "Failed to send setTemp")
                       EXCEPT !.old[d] = pelt_temp[d]]
             ELSE [r EXCEPT !.old[d] = pelt_temp[d]]
        ELSE IF changed
             THEN [r EXCEPT !.log = add_esp_log_message(@, esp_identifier(d),
                      "Attempted to send command while not connected.")]
             ELSE r

\* A variant that sends the target it remembered in place of the changed one.
ForwardTempStale(r, d) ==
    LET changed == pelt_temp[d] # r.old[d]
        done ==
            IF esp_connected[d] /\ changed
            THEN IF esp_command_sender[d]
                 THEN CommandSend(r, d, SendCommand(<<"setTemp", r.old[d]>>),
                                  "Sent command: setTemp", "Failed to send setTemp")
                 ELSE r
            ELSE IF changed /\ ~esp_connected[d]
                 THEN [r EXCEPT !.log = add_esp_log_message(@, esp_identifier(d),
                          "Attempted to send command while not connected.")]
                 ELSE r
    IN  [done EXCEPT !.old[d] = pelt_temp[d]]

\* A variant that sends a changed target without looking at the connectivity
\* flag.
ForwardTempUnconnected(r, d) ==
    LET changed == pelt_temp[d] # r.old[d]
        done ==
            IF changed /\ esp_command_sender[d]
            THEN CommandSend(r, d, SendCommand(<<"setTemp", pelt_temp[d]>>),
                             "Sent command: setTemp", "Failed to send setTemp")
            ELSE r
    IN  [done EXCEPT !.old[d] = pelt_temp[d]]

ForwardTemp(r, d) ==
    LET changed == pelt_temp[d] # r.old[d]
        done ==
            IF esp_connected[d] /\ changed
            THEN IF esp_command_sender[d]
                 THEN CommandSend(r, d, SendCommand(<<"setTemp", pelt_temp[d]>>),
                                  "Sent command: setTemp", "Failed to send setTemp")
                 ELSE r
            ELSE IF changed /\ ~esp_connected[d]
                 THEN [r EXCEPT !.log = add_esp_log_message(@, esp_identifier(d),
                          "Attempted to send command while not connected.")]
                 ELSE r
    IN  [done EXCEPT !.old[d] = pelt_temp[d]]

\* A variant of START and STOP ALL that looks at the sender only.
SendActiveUngated(r, d, on) ==
    IF esp_command_sender[d]
    THEN CommandSend(r, d, SendCommand(<<"tempActive", on>>),
                     "command sent.", "Error sending")
    ELSE [r EXCEPT !.log = add_esp_log_message(@, esp_identifier(d),
             "Attempted while not connected.")]

\* START and STOP ALL for one device: "tempActive 1" / "tempActive 0" while it
\* is connected, else a "not connected" report.
SendActive(r, d, on) ==
    IF esp_connected[d]
    THEN IF esp_command_sender[d]
         THEN CommandSend(r, d, SendCommand(<<"tempActive", on>>),
                          "command sent.", "Error sending")
         ELSE r
    ELSE [r EXCEPT !.log = add_esp_log_message(@, esp_identifier(d),
             "Attempted while not connected.")]

\* ------------------------------------------------------- manual set input

DigitChars == <<"0", "1", "2", "3", "4", "5", "6", "7", "8", "9">>

IsDigit(c) == \E i \in 1..10 : DigitChars[i] = c

DigitValue(c) == (CHOOSE i \in 1..10 : DigitChars[i] = c) - 1

RECURSIVE DigitsValue(_, _)
DigitsValue(chars, acc) ==
    IF chars = <<>> THEN acc
    ELSE DigitsValue(Tail(chars), acc * 10 + DigitValue(chars[1]))

\* str::parse::<i8>(): an optional sign, then one or more digits, the value
\* within -128..127; anything else is an error.
ParseI8(str) ==
    LET signed == str # <<>> /\ str[1] \in {"+", "-"}
        digits == IF signed THEN Tail(str) ELSE str
        wellformed == digits # <<>> /\ \A i \in 1..Len(digits) : IsDigit(digits[i])
        magnitude == IF wellformed THEN DigitsValue(digits, 0) ELSE 0
        value == IF signed /\ str[1] = "-" THEN 0 - magnitude ELSE magnitude
    IN  [ok |-> wellformed /\ value >= -128 /\ value <= 127, value |-> value]

\* What the user may have typed in a "Manual Temp" field.
ManualInputs == { <<"0">>, <<"5">>, <<"+", "5">>, <<"a", "b", "c">>,
                  <<"2", "0", "0">>, <<>> }

\* ------------------------------------------------------- render_home_page

HomeClicks ==
    {[button |-> "none", dev |-> 1, text |-> <<>>],
     [button |-> "START", dev |-> 1, text |-> <<>>],
     [button |-> "STOP ALL", dev |-> 1, text |-> <<>>]}
    \cup [button : {"Override OSC"}, dev : Devices, text : {<<>>}]
    \cup [button : {"Set Temp"}, dev : Devices, text : ManualInputs]

\* A variant of "Set Temp" that acts only while "Override OSC" is ticked.
ManualSetOverrideOnly(st, d, text) ==
    LET parsed == ParseI8(text)
    IN  IF ~manual_pelt[d] THEN st
        ELSE IF parsed.ok
        THEN IF st.temp[d] # parsed.value
             THEN [temp |-> [st.temp EXCEPT ![d] = parsed.value],
                   log |-> add_esp_log_message(st.log, "APP",
                              "Manual override: target directly set")]
             ELSE st
        ELSE [st EXCEPT !.log = add_esp_log_message(@, "APP",
                 "Invalid temperature input")]

\* "Set Temp" of device d with the field holding text: the target is set
\* when the text parses (logged when it changes the target); else the input
\* is reported.
ManualSet(st, d, text) ==
    LET parsed == ParseI8(text)
    IN  IF parsed.ok
        THEN IF st.temp[d] # parsed.value
             THEN [temp |-> [st.temp EXCEPT ![d] = parsed.value],
                   log |-> add_esp_log_message(st.log, "APP",
                              "Manual override: target directly set")]
             ELSE st
        ELSE [st EXCEPT !.log = add_esp_log_message(@, "APP",
                 "Invalid temperature input")]

\* One frame showing the Home page: both devices' forwarding, then at most
\* one click.
RenderHome ==
    /\ gui_pc = "render"
    /\ \E click \in HomeClicks :
          LET r0 == [cmdq |-> cmd_q, log |-> <<>>, old |-> pelt_temp_old,
                     sent |-> last_sent]
              r2 == ForwardTemp(ForwardTemp(r0, 1), 2)
              r3 == CASE click.button = "START" ->
                             SendActive(SendActive(r2, 1, 1), 2, 1)
                      [] click.button = "STOP ALL" ->
                             SendActive(SendActive(r2, 1, 0), 2, 0)
                      [] OTHER -> r2
              st == IF click.button = "Set Temp"
                    THEN ManualSet([temp |-> pelt_temp, log |-> r3.log],
                                   click.dev, click.text)
                    ELSE [temp |-> pelt_temp, log |-> r3.log]
          IN  /\ inputs' = IF click.button = "none" THEN inputs ELSE inputs + 1
              /\ inputs' <= MaxInputs
              /\ cmd_q' = r3.cmdq
              /\ last_sent' = r3.sent
              /\ pelt_temp_old' = r3.old
              /\ pelt_temp' = st.temp
              /\ log_appended' = st.log
              /\ manual_pelt' = IF click.button = "Override OSC"
                                THEN [manual_pelt EXCEPT ![click.dev] = ~@]
                                ELSE manual_pelt
    /\ gui_pc' = "frame"
    /\ UNCHANGED <<esp_command_sender, esp_status_receiver, esp_thread_handle,
                   esp_connected, skin_temp, gui_dev, clear_receiver, osc_q,
                   status_q, worker_vars>>

\* ------------------------------------------- render_esp_connection_page

\* A variant of the connect click that spawns the worker and sends it nothing.
ConnectClickNoConnect(d) ==
    /\ ~esp_thread_handle[d]
    /\ inputs < MaxInputs
    /\ inputs' = inputs + 1
    /\ esp_command_sender' = [esp_command_sender EXCEPT ![d] = TRUE]
    /\ esp_status_receiver' = [esp_status_receiver EXCEPT ![d] = TRUE]
    /\ esp_thread_handle' = [esp_thread_handle EXCEPT ![d] = TRUE]
    /\ cmd_q' = [cmd_q EXCEPT ![d] = <<>>]
    /\ log_appended' =
          add_esp_log_message(<<>>, esp_identifier(d), "Attempting to connect")
    /\ status_q' = [status_q EXCEPT ![d] = <<>>]
    /\ w_pc' = [w_pc EXCEPT ![d] = "run"]
    /\ serial_port' = [serial_port EXCEPT ![d] = FALSE]
    /\ w_exit' = [w_exit EXCEPT ![d] = ""]

\* "Connect to ESP Left/Right" (shown while there is no thread handle): two
\* new channels, a new worker thread, and Connect sent to it.  Were that send
\* to fail, the session would be cleared again.
ConnectClick(d) ==
    /\ ~esp_thread_handle[d]
    /\ inputs < MaxInputs
    /\ inputs' = inputs + 1
    /\ LET sent == TRUE   \* command_r is owned by the thread just spawned
       IN  /\ esp_command_sender' = [esp_command_sender EXCEPT ![d] = sent]
           /\ esp_status_receiver' = [esp_status_receiver EXCEPT ![d] = sent]
           /\ esp_thread_handle' = [esp_thread_handle EXCEPT ![d] = sent]
           /\ cmd_q' = [cmd_q EXCEPT ![d] = IF sent THEN <<Connect>> ELSE <<>>]
           /\ log_appended' =
                 add_esp_log_message(<<>>, esp_identifier(d),
                     IF sent THEN "Attempting to connect"
                     ELSE "Failed to send connect cmd")
    /\ status_q' = [status_q EXCEPT ![d] = <<>>]
    /\ w_pc' = [w_pc EXCEPT ![d] = "run"]
    /\ serial_port' = [serial_port EXCEPT ![d] = FALSE]
    /\ w_exit' = [w_exit EXCEPT ![d] = ""]

\* "Disconnect from ESP Left/Right" (shown while there is a thread handle).
DisconnectClick(d) ==
    /\ esp_thread_handle[d]
    /\ inputs < MaxInputs
    /\ inputs' = inputs + 1
    /\ LET r0 == [cmdq |-> cmd_q, log |-> <<>>, sent |-> last_sent]
           r1 == IF esp_command_sender[d]
                 THEN CommandSend(r0, d, Disconnect, "Disconnect command sent.",
                                  "Failed to send disconnect cmd")
                 ELSE r0
       IN  /\ cmd_q' = r1.cmdq
           /\ log_appended' = r1.log
    /\ UNCHANGED <<esp_command_sender, esp_status_receiver, esp_thread_handle,
                   status_q, worker_vars>>

\* "Send 'PING'" (debug builds; shown while the device is connected).
PingClick(d) ==
    /\ esp_connected[d]
    /\ inputs < MaxInputs
    /\ inputs' = inputs + 1
    /\ LET r0 == [cmdq |-> cmd_q, log |-> <<>>, sent |-> last_sent]
           r1 == IF esp_command_sender[d]
                 THEN CommandSend(r0, d, SendCommand(<<"PING">>),
                                  "Sent PING", "Error sending PING")
                 ELSE r0
       IN  /\ cmd_q' = r1.cmdq
           /\ log_appended' = r1.log
    /\ UNCHANGED <<esp_command_sender, esp_status_receiver, esp_thread_handle,
                   status_q, worker_vars>>

\* One frame showing the ESP Connection page, with one click on it.
RenderEspConnection ==
    /\ gui_pc = "render"
    /\ \E d \in Devices : ConnectClick(d) \/ DisconnectClick(d) \/ PingClick(d)
    /\ gui_pc' = "frame"
    /\ UNCHANGED <<pelt_temp, pelt_temp_old, manual_pelt, esp_connected, skin_temp,
                   gui_dev, clear_receiver, osc_q, obs_vars>>

\* One frame showing a page on which nothing of the core happens (OSC
\* settings, app settings, or the ESP Connection page without a click).
RenderOtherPage ==
    /\ gui_pc = "render"
    /\ gui_pc' = "frame"
    /\ log_appended' = <<>>
    /\ UNCHANGED <<pelt_temp, pelt_temp_old, manual_pelt, esp_command_sender,
                   esp_status_receiver, esp_thread_handle, esp_connected,
                   skin_temp, gui_dev, clear_receiver, chan_vars, worker_vars,
                   env_vars, obs_vars>>

\* ------------------------------------------------------------------ on_exit

\* A variant of on_exit that unwraps the result of sending StopThread: the
\* control thread panics when the worker has ended.
ExitStopUnwrap(d, log) ==
    /\ cmd_q' = IF esp_command_sender[d] /\ w_pc[d] = "run"
                THEN [cmd_q EXCEPT ![d] = Append(@, StopThread)]
                ELSE cmd_q
    /\ esp_command_sender' = [esp_command_sender EXCEPT ![d] = FALSE]
    /\ LET panic == esp_command_sender[d] /\ w_pc[d] # "run"
       IN  /\ esp_thread_handle' =
                 IF panic THEN esp_thread_handle
                 ELSE [esp_thread_handle EXCEPT ![d] = FALSE]
           /\ gui_pc' = IF panic THEN "panicked"
                        ELSE IF esp_thread_handle[d] THEN "exit join"
                        ELSE IF d = 1 THEN "exit" ELSE "stopped"
    /\ log_appended' = log
    /\ gui_dev' = d
    /\ UNCHANGED <<pelt_temp, pelt_temp_old, manual_pelt, esp_status_receiver,
                   esp_connected, skin_temp, clear_receiver, osc_q, status_q,
                   worker_vars, env_vars, obs_vars>>

\* on_exit for device d up to its join: the sender is taken and StopThread
\* sent on it (an error of the send is ignored), the handle is taken.
ExitStop(d, log) ==
    /\ cmd_q' = IF esp_command_sender[d] /\ w_pc[d] = "run"
                THEN [cmd_q EXCEPT ![d] = Append(@, StopThread)]
                ELSE cmd_q
    /\ esp_command_sender' = [esp_command_sender EXCEPT ![d] = FALSE]
    /\ esp_thread_handle' = [esp_thread_handle EXCEPT ![d] = FALSE]
    /\ log_appended' = log
    /\ gui_dev' = d
    /\ gui_pc' = IF esp_thread_handle[d] THEN "exit join"
                 ELSE IF d = 1 THEN "exit" ELSE "stopped"
    /\ UNCHANGED <<pelt_temp, pelt_temp_old, manual_pelt, esp_status_receiver,
                   esp_connected, skin_temp, clear_receiver, osc_q, status_q,
                   worker_vars, env_vars, obs_vars>>

\* The application is closed between two frames: on_exit, ESP L's part.
OnExit ==
    /\ gui_pc = "frame"
    /\ ExitStop(1, add_esp_log_message(<<>>, "APP",
                       "Application exiting. Stopping ESP workers."))

\* on_exit, ESP R's part.
OnExitRight ==
    /\ gui_pc = "exit"
    /\ ExitStop(2, <<>>)

\* handle.join() of on_exit returns: the worker thread has ended.
ExitJoinReturn(d) ==
    /\ gui_pc = "exit join"
    /\ gui_dev = d
    /\ w_pc[d] = "exited"
    /\ gui_pc' = IF d = 1 THEN "exit" ELSE "stopped"
    /\ log_appended' = <<>>
    /\ UNCHANGED <<pelt_temp, pelt_temp_old, manual_pelt, esp_command_sender,
                   esp_status_receiver, esp_thread_handle, esp_connected,
                   skin_temp, gui_dev, clear_receiver, chan_vars, worker_vars,
                   env_vars, obs_vars>>

\* ------------------------------------------------------------ specification

\* TemplateApp::default(), no worker spawned, nothing sent.
Init ==
    /\ pelt_temp = [d \in Devices |-> InitialTemp]
    /\ pelt_temp_old = [d \in Devices |-> InitialOld]
    /\ manual_pelt = [d \in Devices |-> FALSE]
    /\ esp_command_sender = [d \in Devices |-> FALSE]
    /\ esp_status_receiver = [d \in Devices |-> FALSE]
    /\ esp_thread_handle = [d \in Devices |-> FALSE]
    /\ esp_connected = [d \in Devices |-> FALSE]
    /\ skin_temp = [d \in Devices |-> "None"]
    /\ log_appended = <<>>
    /\ gui_pc = "frame"
    /\ gui_dev = 1
    /\ clear_receiver = [d \in Devices |-> FALSE]
    /\ osc_q = <<>>
    /\ cmd_q = [d \in Devices |-> <<>>]
    /\ status_q = [d \in Devices |-> <<>>]
    /\ w_pc = [d \in Devices |-> "none"]
    /\ serial_port = [d \in Devices |-> FALSE]
    /\ inputs = 0
    /\ w_exit = [d \in Devices |-> ""]
    /\ last_sent = [d \in Devices |-> <<>>]

WorkerNext(d) ==
    \/ WConnect(d)
    \/ WSendCommand(d)
    \/ WDisconnect(d)
    \/ WStopThread(d)
    \/ WRead(d)

ControlNext ==
    \/ OscDrain
    \/ \E d \in Devices : ProcessStatus(d) \/ JoinReturn(d) \/ DrainEnd(d)
    \/ RepaintDecision
    \/ RenderHome
    \/ RenderEspConnection
    \/ RenderOtherPage
    \/ OnExit
    \/ OnExitRight
    \/ \E d \in Devices : ExitJoinReturn(d)

\* The whole program.  WChannelDisconnected is no step of it: the control
\* thread drops a command sender only after the worker thread has ended
\* (join) or with StopThread in the channel (on_exit), so no running worker
\* finds its channel empty and disconnected.
Next ==
    \/ OscSend
    \/ ControlNext
    \/ \E d \in Devices : WorkerNext(d)

Spec == Init /\ [][Next]_vars

\* The program under the scheduling the threads have: the control thread runs
\* a frame after a frame (a repaint is requested in every update), a worker's
\* loop keeps iterating.  No click and no packet is ever forced: the steps of
\* ControlNext and WorkerNext that need one are only some of their steps.
FairSpec ==
    /\ Spec
    /\ WF_vars(ControlNext)
    /\ \A d \in Devices : WF_vars(WorkerNext(d))

\* ------------------------------------------------ one worker, any commands

\* esp_worker_thread alone, as thread::spawn starts it for ESP L, with an
\* owner that sends it any command in any order, never takes a status from
\* the status channel (status_q[1] is then all the worker has sent, in order)
\* and may drop its command sender.
WorkerCommands ==
    {Connect, Disconnect, StopThread, SendCommand(<<"setTemp", 5>>)}

InitW ==
    /\ pelt_temp = [d \in Devices |-> InitialTemp]
    /\ pelt_temp_old = [d \in Devices |-> InitialOld]
    /\ manual_pelt = [d \in Devices |-> FALSE]
    /\ esp_command_sender = [d \in Devices |-> d = 1]
    /\ esp_status_receiver = [d \in Devices |-> d = 1]
    /\ esp_thread_handle = [d \in Devices |-> d = 1]
    /\ esp_connected = [d \in Devices |-> FALSE]
    /\ skin_temp = [d \in Devices |-> "None"]
    /\ log_appended = <<>>
    /\ gui_pc = "owner"
    /\ gui_dev = 1
    /\ clear_receiver = [d \in Devices |-> FALSE]
    /\ osc_q = <<>>
    /\ cmd_q = [d \in Devices |-> <<>>]
    /\ status_q = [d \in Devices |-> <<>>]
    /\ w_pc = [d \in Devices |-> IF d = 1 THEN "run" ELSE "none"]
    /\ serial_port = [d \in Devices |-> FALSE]
    /\ inputs = 0
    /\ w_exit = [d \in Devices |-> ""]
    /\ last_sent = [d \in Devices |-> <<>>]

\* command_tx.send(cmd): Ok while the worker holds the receiver.
OwnerSend(d) ==
    /\ esp_command_sender[d]
    /\ w_pc[d] = "run"
    /\ inputs < MaxInputs
    /\ inputs' = inputs + 1
    /\ \E cmd \in WorkerCommands : cmd_q' = [cmd_q EXCEPT ![d] = Append(@, cmd)]
    /\ UNCHANGED <<app_vars, pos_vars, osc_q, status_q, worker_vars, obs_vars>>

\* The owner drops its command sender.
OwnerDrop(d) ==
    /\ esp_command_sender[d]
    /\ esp_command_sender' = [esp_command_sender EXCEPT ![d] = FALSE]
    /\ UNCHANGED <<pelt_temp, pelt_temp_old, manual_pelt, esp_status_receiver,
                   esp_thread_handle, esp_connected, skin_temp, log_appended,
                   pos_vars, chan_vars, worker_vars, env_vars, obs_vars>>

NextW ==
    \/ OwnerSend(1)
    \/ OwnerDrop(1)
    \/ WorkerNext(1)
    \/ WChannelDisconnected(1)

SpecW == InitW /\ [][NextW]_vars

\* ------------------------------------------------------------------ claims

\* What worker d sends in a step (only the worker appends to status_q[d]).
NewStatuses(d) ==
    IF Len(status_q'[d]) > Len(status_q[d])
    THEN SubSeq(status_q'[d], Len(status_q[d]) + 1, Len(status_q'[d]))
    ELSE <<>>

\* The commands the control thread sends to d in a step.
NewCommands(d) ==
    IF Len(cmd_q'[d]) > Len(cmd_q[d])
    THEN SubSeq(cmd_q'[d], Len(cmd_q[d]) + 1, Len(cmd_q'[d]))
    ELSE <<>>

\* "Connected" or "Disconnected", whichever s holds last; "none" without one.
LinkState(s) ==
    LET idx == {i \in 1..Len(s) : s[i].kind \in {"Connected", "Disconnected"}}
    IN  IF idx = {} THEN "none"
        ELSE s[CHOOSE i \in idx : \A j \in idx : j <= i].kind

WriteFailureTexts == {"Failed to send command", "Failed to flush serial port"}

TransportFailureTexts == WriteFailureTexts \cup {"Serial read error"}

\* C1: while manual_override[d] is true no external (device_id, value) event
\* changes target_temperature[d], whatever its device_id: a step that changes
\* the target of an overridden device is a step of the page rendering (the
\* user's "Set Temp"), never of the OSC drain.
C1_OverrideShieldsTarget ==
    [][\A d \in Devices :
          (manual_pelt[d] /\ pelt_temp'[d] # pelt_temp[d]) => gui_pc = "render"]_vars

\* C2: every join of the reconciliation pass returns: the control thread is
\* never waiting in handle.join() for a worker that runs on with no command
\* left and no port open, which is a worker that never ends (the waiting
\* control thread sends it nothing more).
C2_JoinReturns ==
    \A d \in Devices :
        (gui_pc = "join" /\ gui_dev = d)
            => ~(w_pc[d] = "run" /\ cmd_q[d] = <<>> /\ ~serial_port[d])

\* C3: once the user's Disconnect is on its way to the worker of a connected
\* device, the orchestrator eventually has that device's connectivity flag
\* false, thread handle empty and command sender cleared (or the application
\* is being closed).
DisconnectRequested(d) ==
    /\ esp_connected[d]
    /\ w_pc[d] = "run"
    /\ \E i \in 1..Len(cmd_q[d]) : cmd_q[d][i].type = "Disconnect"

DisconnectDone(d) ==
    ~esp_connected[d] /\ ~esp_thread_handle[d] /\ ~esp_command_sender[d]

C3_DisconnectCompletes ==
    \A d \in Devices :
        DisconnectRequested(d)
            ~> (DisconnectDone(d) \/ gui_pc \in {"exit", "exit join", "stopped"})

\* C4: every event the listener puts on the setpoint queue is passed to
\* update_pelt_temp, once and in queue order, and none is taken off and
\* discarded: in a step in which events leave the queue, the targets and the
\* log become what update_pelt_temp makes of those events, in their order.
C4_EveryEventIngested ==
    [][Len(osc_q') < Len(osc_q) =>
          LET taken == SubSeq(osc_q, 1, Len(osc_q) - Len(osc_q'))
              st == drain_osc([temp |-> pelt_temp, log |-> <<>>], taken)
          IN  /\ osc_q' = SubSeq(osc_q, Len(taken) + 1, Len(osc_q))
              /\ pelt_temp' = st.temp
              /\ log_appended' = st.log]_vars

\* C5: in what a worker sends, whatever commands it gets: after a Disconnected
\* there is no Message and no Error before the next Connected.
C5_QuietAfterDisconnected ==
    LET s == status_q[1]
    IN  \A i \in 1..Len(s), j \in 1..Len(s) :
            (i < j /\ s[i].kind = "Disconnected" /\ s[j].kind \in {"Message", "Error"})
                => \E k \in (i + 1)..(j - 1) : s[k].kind = "Connected"

\* C6: a failed write or flush gives exactly one Error, at once followed by
\* exactly one Disconnected with the same reason, and nothing after them,
\* whatever SendCommand was queued behind the failing one.
C6_WriteFailureReport ==
    LET s == status_q[1]
        failed == {i \in 1..Len(s) : /\ s[i].kind \in {"Error", "Disconnected"}
                                     /\ s[i].text \in WriteFailureTexts}
    IN  failed # {} =>
            /\ failed = {Len(s) - 1, Len(s)}
            /\ s[Len(s) - 1].kind = "Error"
            /\ s[Len(s)] = Disconnected(s[Len(s) - 1].text)

C6_Witness ==
    /\ \E i \in 1..Len(status_q[1]) :
          /\ status_q[1][i].kind = "Disconnected"
          /\ status_q[1][i].text = "Failed to send command"
    /\ \E i \in 1..Len(cmd_q[1]) : cmd_q[1][i].type = "SendCommand"

\* C7, as claimed: the loop ends only for StopThread or a disconnected command
\* channel; after a transport failure the worker is still running.
C7_RunsOnAfterFailure ==
    LET s == status_q[1]
    IN  /\ w_pc[1] = "exited" => w_exit[1] \in {"stop", "channel"}
        /\ \A i \in 1..Len(s) :
              (s[i].kind = "Disconnected" /\ s[i].text \in TransportFailureTexts)
                  => w_pc[1] = "run"

\* C7, amended: the loop ends for StopThread, for a disconnected command
\* channel and after a transport failure (write, flush or read error while
\* connected), and for nothing else: the Disconnected of a transport failure
\* is the last the worker sends, its port is closed and its thread has ended,
\* so that it takes no later Connect; a worker that has ended has sent the
\* Disconnected of a StopThread or of a transport failure last, or found its
\* channel disconnected.
C7_FailureEndsWorker ==
    LET s == status_q[1]
    IN  /\ \A i \in 1..Len(s) :
              (s[i].kind = "Disconnected" /\ s[i].text \in TransportFailureTexts)
                  => (i = Len(s) /\ w_pc[1] = "exited" /\ ~serial_port[1])
        /\ w_pc[1] = "exited" =>
              \/ ~esp_command_sender[1] /\ cmd_q[1] = <<>> /\ ~serial_port[1]
              \/ /\ s # <<>>
                 /\ s[Len(s)].kind = "Disconnected"
                 /\ s[Len(s)].text \in
                        TransportFailureTexts \cup {"ESP worker thread stopped."}
                 /\ ~serial_port[1]

C7_Witness ==
    /\ w_exit[1] \in {"write", "flush", "read"}
    /\ \E i \in 1..Len(cmd_q[1]) : cmd_q[1][i].type = "Connect"

\* C8: a worker never sends Connected twice without a Disconnected between
\* them, whatever commands it gets; a Connect taken while a port is open gives
\* an Error, no Connected, and the port stays.
C8_NoDoubleConnected ==
    [][LET new == NewStatuses(1)
       IN  /\ (\E i \in 1..Len(new) : new[i].kind = "Connected")
                 => (LinkState(status_q[1]) # "Connected" /\ Len(new) = 1)
           /\ (/\ HasCommand(1)
               /\ Head(cmd_q[1]).type = "Connect"
               /\ serial_port[1]
               /\ cmd_q'[1] = Tail(cmd_q[1]))
                 => (/\ Len(new) = 1
                     /\ new[1].kind = "Error"
                     /\ serial_port'[1])]_vars

C8_Witness ==
    /\ serial_port[1]
    /\ \E i \in 1..Len(status_q[1]) :
          /\ status_q[1][i].kind = "Error"
          /\ status_q[1][i].text = "Already connected or connection attempt in progress."

\* C9: the connectivity flag of a device is false at the start, becomes true
\* in the step that processes a Connected status of that device and in no
\* other, becomes false in the step that processes a Disconnected status of
\* it and in no other.
Processes(d, kind) ==
    /\ gui_pc = "status"
    /\ gui_dev = d
    /\ esp_status_receiver[d]
    /\ status_q[d] # <<>>
    /\ Head(status_q[d]).kind = kind
    /\ status_q'[d] = Tail(status_q[d])

C9_FlagFollowsStatus ==
    /\ \A d \in Devices : ~esp_connected[d]
    /\ [][\A d \in Devices :
             /\ Processes(d, "Connected") => esp_connected'[d]
             /\ Processes(d, "Disconnected") => ~esp_connected'[d]
             /\ (~esp_connected[d] /\ esp_connected'[d]) => Processes(d, "Connected")
             /\ (esp_connected[d] /\ ~esp_connected'[d]) => Processes(d, "Disconnected")]_vars

C9_Witness ==
    \E d \in Devices :
        /\ ~esp_connected[d]
        /\ clear_receiver[d]
        /\ w_exit[d] = "read"

\* A "setTemp v" among the commands sent to d in a step: <<v>>, else <<>>.
IssuedSetTemp(d) ==
    LET new == NewCommands(d)
        idx == {i \in 1..Len(new) :
                   new[i].type = "SendCommand" /\ new[i].text[1] = "setTemp"}
    IN  IF idx = {} THEN <<>> ELSE <<new[CHOOSE i \in idx : TRUE].text[2]>>

\* C10, as claimed: a setTemp is issued only when the target differs from the
\* last value actually sent to the device and only while its connectivity flag
\* is true, and previous_sent_temperature always holds the last value actually
\* sent (its initial value while nothing was sent).
C10_OldIsLastSent ==
    [][\A d \in Devices :
          /\ IssuedSetTemp(d) # <<>> =>
                /\ esp_connected[d]
                /\ last_sent[d] # <<pelt_temp[d]>>
          /\ pelt_temp_old'[d] =
                IF last_sent'[d] = <<>> THEN InitialOld ELSE last_sent'[d][1]]_vars

\* C10, amended: a setTemp is issued only when the target differs from
\* previous_sent_temperature and only while the connectivity flag is true, and
\* it carries the target; previous_sent_temperature holds the target the
\* forwarding step last saw, whether that step sent it or not (so it is the
\* last value sent whenever the step that saw it last did send it).
C10_SendOnChange ==
    [][\A d \in Devices :
          /\ IssuedSetTemp(d) # <<>> =>
                /\ esp_connected[d]
                /\ esp_command_sender[d]
                /\ pelt_temp[d] # pelt_temp_old[d]
                /\ IssuedSetTemp(d) = <<pelt_temp[d]>>
                /\ pelt_temp_old'[d] = pelt_temp[d]
          /\ pelt_temp_old'[d] # pelt_temp_old[d] =>
                (gui_pc = "render" /\ pelt_temp_old'[d] = pelt_temp[d])]_vars

C10_Witness ==
    \E d \in Devices :
        /\ last_sent[d] = <<5>>
        /\ pelt_temp_old[d] = 5
        /\ esp_connected[d]

\* How many times entry is in log.
Count(log, entry) == Cardinality({i \in 1..Len(log) : log[i] = entry})

\* The log entry of a target that changed while device d was not connected.
FailedDelivery(d) ==
    <<esp_identifier(d), "Attempted to send command while not connected.">>

\* C11: a frame of the Home page that finds the target of a device changed
\* and its connectivity flag false logs one failed-delivery entry for it (and
\* no frame logs one otherwise), sends the device no command and remembers the
\* target as seen; a setTemp is only ever issued from a state in which the
\* target differs from the remembered one, so that value is not sent later
\* unless the target changes again.
C11_FailedDeliveryNotRetried ==
    [][\A d \in Devices :
          /\ (gui_pc = "render" /\ gui_pc' = "frame") =>
                LET undelivered == /\ pelt_temp[d] # pelt_temp_old[d]
                                   /\ ~esp_connected[d]
                                   /\ pelt_temp_old'[d] # pelt_temp_old[d]
                    logged == Count(log_appended', FailedDelivery(d))
                IN  /\ logged = IF undelivered THEN 1 ELSE 0
                    /\ logged > 0 =>
                          /\ cmd_q'[d] = cmd_q[d]
                          /\ last_sent'[d] = last_sent[d]
                          /\ pelt_temp_old'[d] = pelt_temp[d]
          /\ IssuedSetTemp(d) # <<>> => pelt_temp_old[d] # pelt_temp[d]
          /\ (pelt_temp[d] = pelt_temp_old[d] /\ pelt_temp'[d] = pelt_temp[d])
                => pelt_temp_old'[d] = pelt_temp_old[d]]_vars

C11_Witness ==
    \E d \in Devices :
        /\ esp_connected[d]
        /\ serial_port[d]
        /\ pelt_temp[d] = 5
        /\ pelt_temp_old[d] = 5
        /\ last_sent[d] = <<>>
        /\ cmd_q[d] = <<>>
        /\ gui_pc = "frame"
        /\ log_appended = <<>>

\* on_exit has begun and not yet returned.
Exiting == gui_pc \in {"exit", "exit join"}

\* No worker thread is running; no thread handle and no command sender is
\* held.
AllDown ==
    \A d \in Devices :
        w_pc[d] # "run" /\ ~esp_thread_handle[d] /\ ~esp_command_sender[d]

HasStop(d) == \E i \in 1..Len(cmd_q[d]) : cmd_q[d][i].type = "StopThread"

\* C12: on_exit, begun between two frames, comes to its end: while it waits
\* in a join the worker joined has ended or is running with StopThread in its
\* channel, every join returns, and when on_exit has returned no worker thread
\* is running and both thread handles and both command senders are empty.
C12_ShutdownTerminates ==
    /\ [](gui_pc = "exit join" =>
             /\ ~esp_thread_handle[gui_dev] /\ ~esp_command_sender[gui_dev]
             /\ w_pc[gui_dev] = "exited" \/ (w_pc[gui_dev] = "run" /\ HasStop(gui_dev)))
    /\ [](gui_pc = "stopped" => AllDown)
    /\ (Exiting ~> gui_pc = "stopped")

C12_Witness ==
    /\ gui_pc = "stopped"
    /\ \A d \in Devices : w_exit[d] = "stop"

\* on_exit reaches the shutdown of device d in this step: the control thread
\* leaves the point between two frames otherwise than into update(), or the
\* point between the two shutdowns.
Stopping(d) ==
    \/ d = 1 /\ gui_pc = "frame" /\ gui_pc' \notin {"frame", "status"}
    \/ d = 2 /\ gui_pc = "exit" /\ gui_pc' # "exit"

\* C13: when on_exit sends StopThread to a worker that has already ended, the
\* send fails and nothing comes of it: no command is queued, the sender and
\* the handle are taken as in any shutdown, the control thread goes on to the
\* join, which can return at once; the rest of the orchestrator's state is
\* unchanged and on_exit ends with everything down.
C13_StopToEndedWorker ==
    /\ [][\A d \in Devices :
             (Stopping(d) /\ esp_command_sender[d] /\ w_pc[d] = "exited") =>
                 /\ cmd_q' = cmd_q
                 /\ ~esp_command_sender'[d]
                 /\ ~esp_thread_handle'[d]
                 /\ gui_pc' = IF esp_thread_handle[d] THEN "exit join"
                              ELSE IF d = 1 THEN "exit" ELSE "stopped"
                 /\ gui_dev' = d
                 /\ UNCHANGED <<pelt_temp, pelt_temp_old, manual_pelt,
                                esp_connected, skin_temp, status_q>>]_vars
    /\ []((gui_pc = "exit join" /\ w_pc[gui_dev] = "exited")
             => ENABLED ExitJoinReturn(gui_dev))
    /\ []((gui_pc = "stopped" /\ \E d \in Devices : w_exit[d] \notin {"", "stop"})
             => AllDown)

C13_Witness ==
    /\ gui_pc = "stopped"
    /\ \E d \in Devices :
          /\ w_exit[d] = "read"
          /\ ~HasStop(d)
          /\ \E i \in 1..Len(status_q[d]) : status_q[d][i].kind = "Disconnected"

\* Device ids outside the known set {0, 1}, and values of an event, among
\* those of an i8.
UnknownIds == {-128, -1, 2, 7, 127}

EventValues == {-128, 0, 5, 77, 127}

\* The step is the OSC drain loop of update().
Drains == gui_pc = "frame" /\ gui_pc' = "status"

InvalidId == <<"APP", "Invalid peltier _id">>

\* C14: update_pelt_temp with a device id outside {0, 1} sets device 0's
\* target to the value, appends one warning entry to the log and leaves
\* device 1's target; so does the drain loop with such an event.
C14_UnknownIdFallsBack ==
    /\ [](\A id \in UnknownIds, v \in EventValues :
             update_pelt_temp([temp |-> pelt_temp, log |-> <<>>], id, v)
                 = [temp |-> <<v, pelt_temp[2]>>, log |-> <<InvalidId>>])
    /\ [][(Drains /\ Len(osc_q) = 1 /\ osc_q[1][1] \notin {0, 1}) =>
             /\ pelt_temp' = <<osc_q[1][2], pelt_temp[2]>>
             /\ log_appended' = <<InvalidId>>]_vars

C14_Witness ==
    /\ gui_pc = "status"
    /\ log_appended = <<InvalidId>>
    /\ pelt_temp = <<5, 0>>

\* C15: update_pelt_temp with a known device id d and a value v sets d's
\* target to v when manual_override[d] is false and leaves it when it is
\* true; the other device's target and the log are left, and the drain loop
\* leaves both override flags.
C15_KnownIdGated ==
    /\ [](\A d \in Devices, v \in EventValues :
             LET st == update_pelt_temp([temp |-> pelt_temp, log |-> <<>>], d - 1, v)
             IN  /\ st.temp[d] = IF manual_pelt[d] THEN pelt_temp[d] ELSE v
                 /\ st.temp[3 - d] = pelt_temp[3 - d]
                 /\ st.log = <<>>)
    /\ [][(Drains /\ Len(osc_q) = 1 /\ osc_q[1][1] \in {0, 1}) =>
             LET d == osc_q[1][1] + 1
             IN  /\ pelt_temp'[d] = IF manual_pelt[d] THEN pelt_temp[d]
                                    ELSE osc_q[1][2]
                 /\ pelt_temp'[3 - d] = pelt_temp[3 - d]
                 /\ manual_pelt' = manual_pelt]_vars

C15_Witness ==
    /\ gui_pc = "status"
    /\ pelt_temp = <<0, 5>>
    /\ pelt_temp_old = <<InitialOld, InitialOld>>
    /\ log_appended = <<>>

\* C16: a step that turns the override of a device off leaves its target; a
\* target changes only by "Set Temp" or in the drain loop, by an event that is
\* in the queue then and is not ignored then; the drain loop leaves no event
\* in the queue, so that an event it ignored is never applied later.
C16_NoReplayAfterOverride ==
    [][/\ \A d \in Devices :
             /\ (manual_pelt[d] /\ ~manual_pelt'[d]) => pelt_temp'[d] = pelt_temp[d]
             /\ pelt_temp'[d] # pelt_temp[d] =>
                   \/ gui_pc = "render"
                   \/ /\ Drains
                      /\ \E i \in 1..Len(osc_q) :
                            /\ osc_q[i][2] = pelt_temp'[d]
                            /\ \/ osc_q[i][1] = d - 1 /\ ~manual_pelt[d]
                               \/ osc_q[i][1] \notin {0, 1} /\ d = 1
       /\ Drains => osc_q' = <<>>]_vars

C16_Witness ==
    /\ inputs = 3
    /\ gui_pc = "frame"
    /\ osc_q = <<>>
    /\ manual_pelt = <<FALSE, FALSE>>
    /\ pelt_temp = <<InitialTemp, InitialTemp>>
    /\ pelt_temp_old = <<InitialTemp, InitialTemp>>
    /\ \A d \in Devices : w_pc[d] = "none"

\* The control thread waits in the join of gui_dev's worker, which runs on
\* with nothing to do: the wait has no end.
JoinStuck ==
    /\ gui_pc = "join"
    /\ w_pc[gui_dev] = "run"
    /\ cmd_q[gui_dev] = <<>>
    /\ ~serial_port[gui_dev]

\* C17: a reconciliation pass takes every status queued for a session, those
\* behind a Disconnected included: the pass is never stopped for good with a
\* status of a session still waiting in its channel.
C17_PassDrainsBacklog ==
    \A d \in Devices :
        JoinStuck => ~(esp_status_receiver[d] /\ status_q[d] # <<>>)

\* C18: the orchestrator holds no command sender for a session whose thread
\* handle is empty, at the end of a reconciliation pass and at any other
\* point but the wait in the join of that session's thread.
C18_NoSenderWithoutHandle ==
    \A d \in Devices :
        ~(gui_pc = "join" /\ gui_dev = d)
            => (~esp_thread_handle[d] => ~esp_command_sender[d])

C18_Witness ==
    \E d \in Devices :
        /\ gui_pc = "repaint"
        /\ w_exit[d] \in {"write", "flush", "read"}
        /\ ~esp_thread_handle[d]
        /\ ~esp_command_sender[d]
        /\ ~esp_status_receiver[d]

\* C19: the step that processes an Error status of a device appends one log
\* entry (with the last-status text) and goes on with the pass; connectivity
\* flags, thread handles, command senders, status receivers, targets,
\* remembered targets, overrides and telemetry are unchanged.
C19_ErrorChangesNothing ==
    [][\A d \in Devices :
          Processes(d, "Error") =>
              /\ log_appended' = <<<<esp_identifier(d), "Error">>>>
              /\ gui_pc' = "status"
              /\ UNCHANGED <<esp_connected, esp_thread_handle, esp_command_sender,
                             esp_status_receiver, clear_receiver, pelt_temp,
                             pelt_temp_old, manual_pelt, skin_temp, cmd_q>>]_vars

C19_Witness ==
    \E d \in Devices :
        /\ gui_pc = "status"
        /\ gui_dev = d
        /\ log_appended = <<<<esp_identifier(d), "Error">>>>
        /\ esp_connected[d]
        /\ esp_thread_handle[d]
        /\ esp_command_sender[d]
        /\ status_q[d] # <<>>
        /\ Head(status_q[d]).kind = "Disconnected"

\* ------------------------------------------------------- the rolling log

\* Entries added to one log, one after another.
MaxAdds == 250

\* add_esp_log_message alone, on a log that starts empty (esp_log is not
\* persisted).  Here log_appended is the whole of esp_log and inputs the
\* number of entries ever added; the n-th entry added carries n.
InitLog == Init

LogAdd ==
    /\ inputs < MaxAdds
    /\ inputs' = inputs + 1
    /\ log_appended' = add_esp_log_message(log_appended, "APP", inputs + 1)
    /\ UNCHANGED <<pelt_temp, pelt_temp_old, manual_pelt, esp_command_sender,
                   esp_status_receiver, esp_thread_handle, esp_connected,
                   skin_temp, pos_vars, chan_vars, worker_vars, obs_vars>>

NextLog == LogAdd

SpecLog == InitLog /\ [][NextLog]_vars

\* C20: after any number n of adds the log holds min(n, 200) entries, which
\* are the last min(n, 200) added, the oldest first; after 250 adds these are
\* the 51st to the 250th.
C20_LogKeepsLatest ==
    LET n == inputs
        kept == IF n < LogCap THEN n ELSE LogCap
    IN  /\ Len(log_appended) = kept
        /\ Len(log_appended) <= 200
        /\ \A i \in 1..kept : log_appended[i] = <<"APP", n - kept + i>>

C20_Witness ==
    /\ inputs = 250
    /\ Len(log_appended) = 200
    /\ log_appended[1] = <<"APP", 51>>
    /\ log_appended[200] = <<"APP", 250>>

\* ------------------------------------------- the single worker, once more

\* The worker takes the command at the head of its channel in this step.
Takes(type) ==
    /\ HasCommand(1)
    /\ Head(cmd_q[1]).type = type
    /\ cmd_q'[1] = Tail(cmd_q[1])

\* C21: a Connect taken with no port open either opens it (Connected) or,
\* when the open fails, gives exactly one Error and neither Connected nor
\* Disconnected; after the failure no port is open and the worker runs on, so
\* that a later Connect is again an attempt to open and not a refusal.
C21_FailedOpenLeavesIdle ==
    [][(Takes("Connect") /\ ~serial_port[1]) =>
          /\ w_pc'[1] = "run"
          /\ \/ NewStatuses(1) = <<Connected>> /\ serial_port'[1]
             \/ /\ Len(NewStatuses(1)) = 1
                /\ NewStatuses(1)[1].kind = "Error"
                /\ NewStatuses(1)[1].text = "Failed to connect"
                /\ ~serial_port'[1]]_vars

C21_Witness ==
    LET s == status_q[1]
    IN  /\ w_pc[1] = "run"
        /\ serial_port[1]
        /\ \E i \in 1..Len(s), j \in 1..Len(s) :
              /\ i < j
              /\ s[i].kind = "Error" /\ s[i].text = "Failed to connect"
              /\ s[j].kind = "Connected"

\* C22: a SendCommand taken with no port open gives exactly one Error and the
\* worker stays as it is, running without a port; a Connect taken with a port
\* open gives exactly one Error and the port is kept.
C22_MisuseReported ==
    [][/\ (Takes("SendCommand") /\ ~serial_port[1]) =>
             /\ Len(NewStatuses(1)) = 1
             /\ NewStatuses(1)[1].kind = "Error"
             /\ NewStatuses(1)[1].text = "Not connected to ESP. Cannot send command."
             /\ ~serial_port'[1]
             /\ w_pc'[1] = "run"
       /\ (Takes("Connect") /\ serial_port[1]) =>
             /\ Len(NewStatuses(1)) = 1
             /\ NewStatuses(1)[1].kind = "Error"
             /\ NewStatuses(1)[1].text
                   = "Already connected or connection attempt in progress."
             /\ serial_port'[1]
             /\ w_pc'[1] = "run"]_vars

C22_Witness ==
    LET s == status_q[1]
    IN  /\ w_pc[1] = "run"
        /\ ~serial_port[1]
        /\ s # <<>>
        /\ s[Len(s)].kind = "Error"
        /\ s[Len(s)].text = "Not connected to ESP. Cannot send command."

\* C23: a worker holds an open port only while the last of the Connected and
\* Disconnected it has sent is a Connected: when a Disconnected has been sent,
\* for whatever reason, the port is closed, and it stays closed until the
\* next Connected.
C23_PortOpenOnlyWhileConnected ==
    serial_port[1] => LinkState(status_q[1]) = "Connected"

C23_Witness ==
    LET s == status_q[1]
    IN  /\ serial_port[1]
        /\ \E i \in 1..Len(s) : s[i].kind = "Disconnected"

\* C24, as claimed: once the owner has dropped its sender the worker sends
\* no further status.
C24_SilentAfterDrop ==
    [][~esp_command_sender[1] => status_q' = status_q]_vars

\* C24, amended: a worker that finds its command channel empty and every
\* sender dropped closes its port and ends, and sends no status in doing so;
\* commands still in the channel when the sender was dropped are taken first
\* and report as always.
C24_OwnerGoneSilentEnd ==
    [][(w_pc[1] = "run" /\ ~esp_command_sender[1] /\ cmd_q[1] = <<>>) =>
          /\ w_pc'[1] = "exited"
          /\ ~serial_port'[1]
          /\ status_q' = status_q]_vars

C24_Witness ==
    /\ w_exit[1] = "channel"
    /\ ~serial_port[1]
    /\ LinkState(status_q[1]) = "Connected"

\* The single worker under the scheduling it has: its loop keeps iterating.
FairSpecW ==
    /\ SpecW
    /\ WF_vars(WorkerNext(1) \/ WChannelDisconnected(1))

ConnectAction(d) ==
    /\ gui_pc = "render"
    /\ gui_pc' = "frame"
    /\ ~esp_thread_handle[d]
    /\ \/ esp_thread_handle'[d]
       \/ esp_command_sender'[d] # esp_command_sender[d]
       \/ /\ log_appended' # <<>>
          /\ log_appended'[1][1] = esp_identifier(d)
          /\ log_appended'[1][2]
                \in {"Attempting to connect", "Failed to send connect cmd"}

\* C26: the connect action leaves command sender, status receiver and thread
\* handle all present with Connect the one command in the new worker's
\* channel, or all three absent with an error logged; the channel of a worker
\* changes otherwise only at its head, taken by the worker, and at its end, so
\* that the first command a worker receives is Connect.
C26_SessionStartsWithConnect ==
    [][\A d \in Devices :
          /\ ConnectAction(d) =>
                \/ /\ esp_command_sender'[d]
                   /\ esp_status_receiver'[d]
                   /\ esp_thread_handle'[d]
                   /\ cmd_q'[d] = <<Connect>>
                   /\ w_pc'[d] = "run"
                   /\ log_appended'
                         = <<<<esp_identifier(d), "Attempting to connect">>>>
                \/ /\ ~esp_command_sender'[d]
                   /\ ~esp_status_receiver'[d]
                   /\ ~esp_thread_handle'[d]
                   /\ cmd_q'[d] = cmd_q[d]
                   /\ log_appended'
                         = <<<<esp_identifier(d), "Failed to send connect cmd">>>>
          /\ (cmd_q'[d] # cmd_q[d] /\ ~ConnectAction(d)) =>
                \/ /\ w_pc[d] = "run"
                   /\ cmd_q[d] # <<>>
                   /\ cmd_q'[d] = Tail(cmd_q[d])
                \/ /\ esp_thread_handle[d]
                   /\ Len(cmd_q'[d]) > Len(cmd_q[d])
                   /\ SubSeq(cmd_q'[d], 1, Len(cmd_q[d])) = cmd_q[d]]_vars

C26_Witness ==
    /\ gui_pc = "frame"
    /\ esp_command_sender[2]
    /\ esp_status_receiver[2]
    /\ esp_thread_handle[2]
    /\ cmd_q[2] = <<Connect>>
    /\ status_q[2] = <<>>
    /\ log_appended = <<<<esp_identifier(2), "Attempting to connect">>>>

\* ------------------------------------------------------- the send actions

\* The frame rendered in this step forwards a changed target of d.
Forwards(d) ==
    /\ gui_pc = "render"
    /\ gui_pc' = "frame"
    /\ pelt_temp_old'[d] # pelt_temp_old[d]

\* The frame rendered in this step sends "tempActive" to some device.
ActiveClicked ==
    /\ gui_pc = "render"
    /\ gui_pc' = "frame"
    /\ \E e \in Devices : \E i \in 1..Len(NewCommands(e)) :
          /\ NewCommands(e)[i].type = "SendCommand"
          /\ NewCommands(e)[i].text[1] = "tempActive"

\* The log of this step has the entry <<who, text>>.
Logged(who, text) ==
    \E i \in 1..Len(log_appended') : log_appended'[i] = <<who, text>>

\* C27: no SendCommand is put in the channel of a device whose connectivity
\* flag is false or whose sender is absent; forwarding a changed target to
\* such a device, and START or STOP ALL for it, send nothing and log that it
\* is not connected; a send that fails because the worker has ended is logged
\* and the frame completes; and whenever a page is rendered, a device whose
\* flag is true has a sender, so that an absent sender is reported too.
C27_SendNeedsConnection ==
    /\ [][\A d \in Devices :
             /\ (\E i \in 1..Len(NewCommands(d)) :
                    NewCommands(d)[i].type = "SendCommand")
                   => esp_connected[d] /\ esp_command_sender[d]
             /\ (Forwards(d) /\ ~esp_connected[d]) =>
                   /\ cmd_q'[d] = cmd_q[d]
                   /\ Logged(esp_identifier(d),
                             "Attempted to send command while not connected.")
             /\ (ActiveClicked /\ ~esp_connected[d]) =>
                   /\ cmd_q'[d] = cmd_q[d]
                   /\ Logged(esp_identifier(d), "Attempted while not connected.")
             /\ (Forwards(d) /\ esp_connected[d] /\ w_pc[d] # "run") =>
                   /\ cmd_q'[d] = cmd_q[d]
                   /\ Logged(esp_identifier(d), "Failed to send setTemp")]_vars
    /\ [](gui_pc = "render" =>
             \A d \in Devices : esp_connected[d] => esp_command_sender[d])

\* A START or STOP ALL reached one device while the other, with a session but
\* not yet connected, got the report instead.
C27_Witness ==
    /\ gui_pc = "frame"
    /\ \E d \in Devices, e \in Devices :
          /\ ~esp_connected[d] /\ esp_command_sender[d]
          /\ \A i \in 1..Len(cmd_q[d]) : cmd_q[d][i].type # "SendCommand"
          /\ \E i \in 1..Len(log_appended) :
                log_appended[i] = <<esp_identifier(d), "Attempted while not connected.">>
          /\ cmd_q[e] # <<>>
          /\ cmd_q[e][Len(cmd_q[e])].type = "SendCommand"
          /\ cmd_q[e][Len(cmd_q[e])].text[1] = "tempActive"

\* --------------------------------------------- telemetry of two devices

MaxLines == 2

\* The parts of a telemetry line, as split(',') and splitn(2, ':') with trim
\* give them: a recognized key with a value that parses, one with a value
\* that does not, other keys, and a part with no ':'.
TelemetryParts ==
    { <<"Skin_Temp_Smoothed", "12.12">>, <<"Skin_Temp_Smoothed", "18.73">>,
      <<"Skin_Temp_Smoothed", "abc">>, <<"Exterior_Temp", "18.73">>,
      <<"Ambient">> }

\* Lines of one part and of two.
TelemetryLines ==
    {<<p>> : p \in TelemetryParts}
        \cup {<<p, q>> : p \in TelemetryParts, q \in TelemetryParts}

\* Both devices connected, update() at the start of ESP L's pass.
InitT ==
    /\ pelt_temp = [d \in Devices |-> InitialTemp]
    /\ pelt_temp_old = [d \in Devices |-> InitialTemp]
    /\ manual_pelt = [d \in Devices |-> FALSE]
    /\ esp_command_sender = [d \in Devices |-> TRUE]
    /\ esp_status_receiver = [d \in Devices |-> TRUE]
    /\ esp_thread_handle = [d \in Devices |-> TRUE]
    /\ esp_connected = [d \in Devices |-> TRUE]
    /\ skin_temp = [d \in Devices |-> "None"]
    /\ log_appended = <<>>
    /\ gui_pc = "status"
    /\ gui_dev = 1
    /\ clear_receiver = [d \in Devices |-> FALSE]
    /\ osc_q = <<>>
    /\ cmd_q = [d \in Devices |-> <<>>]
    /\ status_q = [d \in Devices |-> <<>>]
    /\ w_pc = [d \in Devices |-> "run"]
    /\ serial_port = [d \in Devices |-> TRUE]
    /\ inputs = 0
    /\ w_exit = [d \in Devices |-> ""]
    /\ last_sent = [d \in Devices |-> <<InitialTemp>>]

\* The worker of d reads a line from its port and sends it as a Message.
LineArrives(d) ==
    /\ w_pc[d] = "run"
    /\ serial_port[d]
    /\ cmd_q[d] = <<>>
    /\ inputs < MaxLines
    /\ inputs' = inputs + 1
    /\ \E line \in TelemetryLines :
          status_q' = [status_q EXCEPT ![d] = Append(@, Message(line))]
    /\ UNCHANGED <<app_vars, pos_vars, osc_q, cmd_q, worker_vars, obs_vars>>

\* Frames with no click and no setpoint event, both workers reading lines.
NextT ==
    \/ \E d \in Devices : LineArrives(d)
    \/ \E d \in Devices : ProcessStatus(d)
    \/ \E d \in Devices : DrainEnd(d)
    \/ RepaintDecision
    \/ RenderOtherPage
    \/ OscDrain

SpecT == InitT /\ [][NextT]_vars

\* The positions of line's parts with the key Skin_Temp_Smoothed.
SkinParts(line) ==
    {i \in 1..Len(line) : Len(line[i]) = 2 /\ line[i][1] = "Skin_Temp_Smoothed"}

\* The entries of log tagged who with the text text.
Entries(log, who, text) == {i \in 1..Len(log) : log[i] = <<who, text>>}

\* C28: processing one line of device d: each part with the recognized key
\* and a value that is no number adds one parse-failure entry tagged d and
\* changes no value; parts with other keys or no ':' add and change nothing;
\* every part is looked at, so that d's value is that of the last part with
\* the recognized key and a number, and its prior value when there is none;
\* the other device's value stays.
C28_LineParsedPartByPart ==
    [][\A d \in Devices :
          Processes(d, "Message") =>
             LET line == Head(status_q[d]).text
                 good == {i \in SkinParts(line) : line[i][2] \in NumericTexts}
                 bad == SkinParts(line) \ good
                 id == esp_identifier(d)
             IN  /\ skin_temp'[d] =
                       IF good = {} THEN skin_temp[d]
                       ELSE line[CHOOSE i \in good : \A j \in good : j <= i][2]
                 /\ Cardinality(Entries(log_appended', id,
                        "Failed to parse Skin_Temp_Smoothed value"))
                       = Cardinality(bad)
                 /\ Len(log_appended') = Cardinality(bad) + 1
                 /\ Cardinality(Entries(log_appended', id, "MSG")) = 1
                 /\ \A e \in Devices \ {d} : skin_temp'[e] = skin_temp[e]]_vars

\* A part of ESP R's line with a value that is no number has been processed:
\* the failure is logged, the value another part gave stays, and so does
\* ESP L's.
C28_Witness ==
    /\ gui_pc = "status"
    /\ gui_dev = 2
    /\ skin_temp[1] = "12.12"
    /\ skin_temp[2] = "18.73"
    /\ Entries(log_appended, "ESP R",
               "Failed to parse Skin_Temp_Smoothed value") # {}

\* ------------------------------------------------- transitions and the log

\* C29: the step in which the control thread issues a connect attempt for d,
\* or processes a Connected, a Disconnected or an Error of d, appends to the
\* log an entry tagged d that tells which it was; and no step changes d's
\* connectivity flag without an entry tagged d.
C29_TransitionsLogged ==
    [][\A d \in Devices :
          LET id == esp_identifier(d)
          IN  /\ ConnectAction(d) =>
                    Logged(id, "Attempting to connect")
                       \/ Logged(id, "Failed to send connect cmd")
              /\ Processes(d, "Connected") =>
                    esp_connected'[d] /\ Logged(id, "Connected.")
              /\ Processes(d, "Disconnected") =>
                    ~esp_connected'[d] /\ Logged(id, Head(status_q[d]).text)
              /\ Processes(d, "Error") =>
                    esp_connected'[d] = esp_connected[d] /\ Logged(id, "Error")
              /\ esp_connected'[d] # esp_connected[d] =>
                    \E i \in 1..Len(log_appended') : log_appended'[i][1] = id]_vars

\* ESP R's Disconnected has just been processed: the flag is down and the
\* reason is in the log.
C29_Witness ==
    /\ gui_pc \in {"join", "status"}
    /\ gui_dev = 2
    /\ ~esp_connected[2]
    /\ log_appended = <<<<"ESP R", "Disconnected by user.">>>>

\* ------------------------------------------------------- the manual set

\* Texts of a "Manual Temp" field with the integer each denotes as a target
\* temperature (a signed 8-bit number, written as digits with at most a
\* sign before them), val = <<>> for a text that denotes none.
ManualTexts ==
    { [text |-> <<"0">>, val |-> <<0>>],
      [text |-> <<"5">>, val |-> <<5>>],
      [text |-> <<"+", "5">>, val |-> <<5>>],
      [text |-> <<"-", "5">>, val |-> <<-5>>],
      [text |-> <<"0", "0", "7">>, val |-> <<7>>],
      [text |-> <<"1", "2", "7">>, val |-> <<127>>],
      [text |-> <<"-", "1", "2", "8">>, val |-> <<-128>>],
      [text |-> <<"1", "2", "8">>, val |-> <<>>],
      [text |-> <<"-", "1", "2", "9">>, val |-> <<>>],
      [text |-> <<"2", "0", "0">>, val |-> <<>>],
      [text |-> <<"a", "b", "c">>, val |-> <<>>],
      [text |-> <<" ", "5">>, val |-> <<>>],
      [text |-> <<"5", ".", "0">>, val |-> <<>>],
      [text |-> <<"-">>, val |-> <<>>],
      [text |-> <<>>, val |-> <<>>] }

\* C30: in every state, with "Override OSC" ticked or not, a manual set of
\* device d with a text that denotes a target temperature makes it d's target
\* and leaves the other device's; with any other text (no number, or one out
\* of the range of a target) both targets stay and one invalid-input entry is
\* logged.
C30_ManualSetIgnoresOverride ==
    \A d \in Devices : \A in \in ManualTexts :
        LET st == ManualSet([temp |-> pelt_temp, log |-> <<>>], d, in.text)
        IN  IF in.val # <<>>
            THEN /\ st.temp = [pelt_temp EXCEPT ![d] = in.val[1]]
                 /\ \A i \in 1..Len(st.log) :
                       st.log[i] # <<"APP", "Invalid temperature input">>
            ELSE /\ st.temp = pelt_temp
                 /\ st.log = <<<<"APP", "Invalid temperature input">>>>

\* A manual set has just changed ESP L's target while its override was on.
C30_Witness ==
    /\ gui_pc = "frame"
    /\ manual_pelt[1]
    /\ pelt_temp[1] = 5
    /\ pelt_temp_old[1] = 0
    /\ log_appended = <<<<"APP", "Manual override: target directly set">>>>

\* ------------------------------------------------- connecting once more

\* The user's disconnect action for a device that is not connected and whose
\* session holds a thread handle is on its way to the worker.
DisconnectWhileDown(d) ==
    /\ ~esp_connected[d]
    /\ esp_thread_handle[d]
    /\ w_pc[d] = "run"
    /\ \E i \in 1..Len(cmd_q[d]) : cmd_q[d][i].type = "Disconnect"

\* C31: for a device that is not connected, the disconnect action and the
\* reconciliation that follows it empty the thread handle, so that the connect
\* button is shown again (or the application is being closed).
C31_ConnectAvailableAgain ==
    \A d \in Devices :
        DisconnectWhileDown(d)
            ~> (~esp_thread_handle[d] \/ gui_pc \in {"exit", "exit join", "stopped"})

\* ------------------------------------------- the setpoint after a connect

\* C32, as claimed: between two frames, for a connected device with a running
\* worker and nothing left to forward (the target is the remembered one, so
\* the forwarding step has seen it and sends nothing more), the last setTemp
\* put in the command channel carries the target, whenever the target was set.
C32_TargetDeliveredAfterConnect ==
    \A d \in Devices :
        (/\ gui_pc = "frame"
         /\ esp_connected[d]
         /\ w_pc[d] = "run"
         /\ pelt_temp_old[d] = pelt_temp[d])
            => last_sent[d] = <<pelt_temp[d]>>

\* C32, amended: a forwarding step that finds the target changed while the
\* connectivity flag is true and the worker runs puts setTemp with the target
\* in the channel; one that finds it changed while the flag is false sends
\* nothing and remembers the target, and a frame that finds the target as
\* remembered sends no setTemp: a target the Home page has shown while the
\* device was not connected, the initial 0 among them, is not sent after the
\* connect until the target changes again.
C32_ChangeWhileConnectedDelivered ==
    [][\A d \in Devices :
          /\ (Forwards(d) /\ esp_connected[d] /\ w_pc[d] = "run") =>
                /\ IssuedSetTemp(d) = <<pelt_temp[d]>>
                /\ last_sent'[d] = <<pelt_temp[d]>>
          /\ (Forwards(d) /\ ~esp_connected[d]) =>
                /\ IssuedSetTemp(d) = <<>>
                /\ last_sent'[d] = last_sent[d]
          /\ (gui_pc = "render" /\ pelt_temp_old[d] = pelt_temp[d]) =>
                IssuedSetTemp(d) = <<>>]_vars

\* The initial target 0 was sent to a connected device: no frame of the Home
\* page had seen it before the device was connected.
C32_Witness ==
    \E d \in Devices :
        /\ gui_pc = "frame"
        /\ esp_connected[d]
        /\ w_pc[d] = "run"
        /\ pelt_temp[d] = InitialTemp
        /\ pelt_temp_old[d] = InitialTemp
        /\ last_sent[d] = <<InitialTemp>>
        /\ \A e \in Devices : manual_pelt[e] = FALSE /\ pelt_temp[e] = InitialTemp

\* ------------------------------------------------- the three of a session

\* Command sender, status receiver and thread handle of d are all there or
\* all empty.
AllOrNone(d) ==
    /\ esp_command_sender[d] = esp_thread_handle[d]
    /\ esp_status_receiver[d] = esp_thread_handle[d]

\* C33, as claimed: after every reconciliation pass, after every frame's
\* actions and after on_exit, the three are all there or all empty.
C33_SessionAllOrNone ==
    \A d \in Devices :
        gui_pc \in {"repaint", "render", "frame", "stopped"} => AllOrNone(d)

\* C33, amended: after every reconciliation pass and after every frame's
\* actions the three are all there or all empty; on_exit empties the command
\* sender and the thread handle and leaves the status receiver where it is.
C33_SessionAllOrNoneInFrames ==
    \A d \in Devices :
        /\ gui_pc \in {"repaint", "render", "frame"} => AllOrNone(d)
        /\ gui_pc = "stopped" => ~esp_command_sender[d] /\ ~esp_thread_handle[d]

\* A pass has ended one device's session and left the other's whole.
C33_Witness ==
    \E d \in Devices, e \in Devices :
        /\ gui_pc = "render"
        /\ w_pc[d] = "exited"
        /\ ~esp_command_sender[d] /\ ~esp_status_receiver[d] /\ ~esp_thread_handle[d]
        /\ esp_command_sender[e] /\ esp_status_receiver[e] /\ esp_thread_handle[e]

\* ------------------------------------------------- one worker per device

\* C34: a device's thread handle is empty while its worker thread runs only
\* during the join of on_exit, which has sent the worker StopThread and
\* returns when it ends: everywhere else an empty handle means that no worker
\* of the device is running, so that the connect action, possible only with
\* an empty handle, never starts a second one.
C34_EmptyHandleNoWorker ==
    \A d \in Devices :
        (~esp_thread_handle[d] /\ w_pc[d] = "run")
            => (gui_pc = "exit join" /\ gui_dev = d /\ HasStop(d))

\* ------------------------------------------- where the flag is written

\* C35: a connectivity flag changes only in a step of the reconciliation
\* pass that processes a status of that device, to true for a Connected and
\* to false for a Disconnected: no page's action (connect, disconnect, send,
\* START, STOP ALL, manual set) and no step of on_exit changes one; and at the
\* end of a reconciliation pass no flag is true with the thread handle empty.
C35_FlagOnlyInReconciliation ==
    /\ [][\A d \in Devices :
             esp_connected'[d] # esp_connected[d] =>
                \/ Processes(d, "Connected") /\ esp_connected'[d]
                \/ Processes(d, "Disconnected") /\ ~esp_connected'[d]]_vars
    /\ [](\A d \in Devices :
             gui_pc \in {"repaint", "render"}
                => (esp_connected[d] => esp_thread_handle[d]))

\* A pass has ended in which ESP R's flag went down with its session, ESP L
\* staying connected.
C35_Witness ==
    /\ gui_pc = "repaint"
    /\ esp_connected[1] /\ esp_thread_handle[1]
    /\ ~esp_connected[2] /\ ~esp_thread_handle[2]
    /\ w_pc[2] = "exited"

\* ------------------------------------------------- ESP L and ESP R alike

\* The session of device d as the match on a status finds it.
Session(d) ==
    [connected |-> esp_connected[d],
     handle |-> esp_thread_handle[d],
     sender |-> esp_command_sender[d],
     clear |-> clear_receiver[d],
     skin |-> skin_temp[d],
     log |-> <<>>,
     join |-> FALSE]

\* Statuses of the kinds that carry no line.
LinkEvents ==
    {Connected, Disconnected("Disconnected by user."), Error("Failed to connect")}

\* log with every entry tagged who.
Retagged(log, who) == [i \in 1..Len(log) |-> <<who, log[i][2]>>]

\* From the session of d, the match of ESP L and the match of ESP R on status
\* give the same session and the same log entries in the same order, the tag
\* apart.
SamePath(d, status) ==
    LET left == on_status(Session(d), 1, status)
        right == on_status(Session(d), 2, status)
    IN  [left EXCEPT !.log = Retagged(@, "ESP R")] = right

\* C36: from the same session and for the same status, a Connected, a
\* Disconnected, an Error or a Message with any telemetry line, the match of
\* ESP L and the match of ESP R give the same session and append the same log
\* entries in the same order, the device's tag apart.
C36_PathsEquivalent ==
    \A d \in Devices :
        /\ \A status \in LinkEvents : SamePath(d, status)
        /\ \A line \in TelemetryLines : SamePath(d, Message(line))

====
